---------------------------- MODULE Spec2Model ----------------------------
(***************************************************************************)
(* A model of the Move binary-format deserializer                          *)
(* (language/move-binary-format/src/deserializer.rs).                      *)
(*                                                                         *)
(* The decoder is a pure function of its input bytes.  It is modelled as   *)
(* a state machine whose initial states draw the input from bounded sets   *)
(* and whose actions are the steps the code takes on it: the steps of      *)
(* deserialize_compiled_module / deserialize_compiled_script, the          *)
(* iterations of load_signature_token's builder loop, and the iterations   *)
(* of load_code's instruction loop.  The helpers those steps call are      *)
(* operators that compute what the code computes on (bytes, position).     *)
(*                                                                         *)
(* Bytes are the integers 0..255 and a cursor is a 0-based position in a   *)
(* byte sequence.  Every reader returns a record                           *)
(*     [ok, val, pos, status, msg]                                         *)
(* ok = TRUE with the value read and the cursor position after it, or      *)
(* ok = FALSE with the StatusCode, the message and the cursor position at  *)
(* which the error was raised.                                             *)
(***************************************************************************)
EXTENDS Integers, Sequences, FiniteSets, TLC

VARIABLES
    binary,        \* the bytes under the cursor (the input binary / stream)
    entry,         \* which decoder runs on it
    pc,            \* the position reached in that decoder
    cursor,        \* the cursor's position in binary
    version,       \* the cursor's format version
    tables,        \* Vec<Table>: the directory as read, sorted by check_tables
    content_len,   \* check_tables' Ok value
    table_contents,\* the bytes of the tables, read after the directory
    unit,          \* the CompiledModule / CompiledScript under construction
    stack,         \* load_signature_token's stack of TypeBuilder
    code,          \* load_code's Vec<Bytecode>
    bytecode_count,\* load_code's instruction count
    result,        \* the BinaryLoaderResult returned, once pc = "done"
    vm_state,      \* move_core_types::state: the global VMState
    prev_state,    \* deserialize_with_max_version's local prev_state
    storage,       \* the modules in the storage of the Mvm
    gas            \* the GasStrategy handed to the Mvm

vars == <<binary, entry, pc, cursor, version, tables, content_len,
          table_contents, unit, stack, code, bytecode_count, result,
          vm_state, prev_state, storage, gas>>

-----------------------------------------------------------------------------
(* Results *)

Ok(v, p) == [ok |-> TRUE, val |-> v, pos |-> p, status |-> "OK", msg |-> ""]

Err(s, m, p) == [ok |-> FALSE, val |-> 0, pos |-> p, status |-> s, msg |-> m]

NoResult == [ok |-> FALSE, val |-> 0, pos |-> 0, status |-> "NONE", msg |-> ""]

-----------------------------------------------------------------------------
(* Integer widths.  TLC's integers are 32-bit signed, so the u32 of the     *)
(* directory (offset, count, current_offset) is modelled with the widest    *)
(* range that leaves room for one carry: 0..U32_MAX with U32_MAX = 2^31-2.  *)
(* A ULEB128 value saturates at ULEB_SAT = U32_MAX + 1, which is above      *)
(* every per-field maximum, so "x > max" is decided exactly.                *)

U32_MAX == 2147483646

ULEB_SAT == U32_MAX + 1

RECURSIVE Pow2(_)
Pow2(n) == IF n = 0 THEN 1 ELSE 2 * Pow2(n - 1)

\* cur << shift, saturating
SatShl(cur, shift) ==
    IF cur = 0 THEN 0
    ELSE IF shift >= 31 THEN ULEB_SAT
    ELSE IF cur > ULEB_SAT \div Pow2(shift) THEN ULEB_SAT
    ELSE cur * Pow2(shift)

\* value | (cur << shift): the bits do not overlap, so it is a sum
SatOr(value, shifted) ==
    IF value > ULEB_SAT - shifted THEN ULEB_SAT ELSE value + shifted

-----------------------------------------------------------------------------
(* Format constants (file_format_common.rs) *)

MOVE_MAGIC == <<161, 28, 235, 11>>

VERSION_1 == 1
VERSION_2 == 2
VERSION_3 == 3
VERSION_4 == 4
VERSION_5 == 5
VERSION_6 == 6
VERSION_MAX == VERSION_6

Versions == VERSION_1 .. VERSION_MAX

TABLE_COUNT_MAX == 255
TABLE_OFFSET_MAX == U32_MAX
TABLE_SIZE_MAX == U32_MAX
TABLE_INDEX_MAX == 65535
SIGNATURE_INDEX_MAX == TABLE_INDEX_MAX
MODULE_HANDLE_INDEX_MAX == TABLE_INDEX_MAX
IDENTIFIER_INDEX_MAX == TABLE_INDEX_MAX
STRUCT_HANDLE_INDEX_MAX == TABLE_INDEX_MAX
ADDRESS_INDEX_MAX == TABLE_INDEX_MAX
STRUCT_DEF_INDEX_MAX == TABLE_INDEX_MAX
FUNCTION_HANDLE_INDEX_MAX == TABLE_INDEX_MAX
FIELD_HANDLE_INDEX_MAX == TABLE_INDEX_MAX
FIELD_INST_INDEX_MAX == TABLE_INDEX_MAX
FUNCTION_INST_INDEX_MAX == TABLE_INDEX_MAX
STRUCT_DEF_INST_INDEX_MAX == TABLE_INDEX_MAX
CONSTANT_INDEX_MAX == TABLE_INDEX_MAX
BYTECODE_COUNT_MAX == 65535
BYTECODE_INDEX_MAX == 65535
LOCAL_INDEX_MAX == 255
ACQUIRES_COUNT_MAX == 255
FIELD_COUNT_MAX == 255
FIELD_OFFSET_MAX == 255
TYPE_PARAMETER_COUNT_MAX == 255
TYPE_PARAMETER_INDEX_MAX == 65536
SIGNATURE_SIZE_MAX == 255
CONSTANT_SIZE_MAX == 65535
METADATA_KEY_SIZE_MAX == 1023
METADATA_VALUE_SIZE_MAX == 65535
IDENTIFIER_SIZE_MAX == 65535

\* The depth maximum of load_signature_token.  The format's value is 256;
\* the decoder is the same for every value, and the model runs it with a
\* small one.
SIGNATURE_TOKEN_DEPTH_MAX == 3

-----------------------------------------------------------------------------
(* VersionedCursor primitives *)

\* Cursor::read_u8
read_u8(bytes, pos) ==
    IF pos < Len(bytes) THEN Ok(bytes[pos + 1], pos + 1)
    ELSE Err("EOF", "", pos)

\* Cursor::read_exact(n): all n bytes or an error
read_exact(bytes, pos, n) ==
    IF pos + n <= Len(bytes) THEN Ok(SubSeq(bytes, pos + 1, pos + n), pos + n)
    ELSE Err("EOF", "", Len(bytes))

\* Cursor::read(buf) with |buf| = n: the bytes that are there, at most n
read(bytes, pos, n) ==
    LET k == IF pos + n <= Len(bytes) THEN n
             ELSE IF pos <= Len(bytes) THEN Len(bytes) - pos ELSE 0
    IN  Ok(SubSeq(bytes, pos + 1, pos + k), pos + k)

\* read_uleb128_as_u64: at most 10 bytes, 7 bits each, least significant
\* first; a final byte of 0 after the first, or bits beyond 64, are invalid.
RECURSIVE uleb_loop(_, _, _, _)
uleb_loop(bytes, pos, value, shift) ==
    IF pos >= Len(bytes) THEN Err("EOF", "invalid ULEB128", pos)
    ELSE LET byte == bytes[pos + 1]
             cur  == byte % 128
         IN  IF shift = 63 /\ cur > 1
             THEN Err("INVALID", "invalid ULEB128", pos + 1)
             ELSE LET value2 == SatOr(value, SatShl(cur, shift))
                  IN  IF byte < 128
                      THEN IF shift > 0 /\ cur = 0
                           THEN Err("INVALID", "invalid ULEB128", pos + 1)
                           ELSE Ok(value2, pos + 1)
                      ELSE IF shift + 7 > 64
                           THEN Err("INVALID", "invalid ULEB128", pos + 1)
                           ELSE uleb_loop(bytes, pos + 1, value2, shift + 7)

read_uleb128_as_u64(bytes, pos) == uleb_loop(bytes, pos, 0, 0)

\* The largest value of the target types T of read_uleb_internal<T>
U8_MAX == 255
U16_MAX == 65535
U64_MAX == ULEB_SAT

\* A variant of read_uleb_internal that lets the value max + 1 through.
read_uleb_internal_max_excluded(bytes, pos, max, t_max) ==
    LET x == read_uleb128_as_u64(bytes, pos)
    IN  IF ~x.ok THEN Err("MALFORMED", "Bad Uleb", x.pos)
        ELSE IF x.val > max + 1
             THEN Err("MALFORMED", "Uleb greater than max requested", x.pos)
        ELSE IF x.val > t_max
             THEN Err("UNKNOWN_INVARIANT_VIOLATION_ERROR",
                      "Failed to convert u64 to target integer type", x.pos)
             ELSE x

\* read_uleb_internal<T>: the value must be at most max and fit T (t_max)
read_uleb_internal(bytes, pos, max, t_max) ==
    LET x == read_uleb128_as_u64(bytes, pos)
    IN  IF ~x.ok THEN Err("MALFORMED", "Bad Uleb", x.pos)
        ELSE IF x.val > max
             THEN Err("MALFORMED", "Uleb greater than max requested", x.pos)
        ELSE IF x.val > t_max
             THEN Err("UNKNOWN_INVARIANT_VIOLATION_ERROR",
                      "Failed to convert u64 to target integer type", x.pos)
             ELSE x

-----------------------------------------------------------------------------
(* The header and the table directory *)

\* TableType::from_u8
TableType_from_u8(value) ==
    CASE value = 1  -> Ok("MODULE_HANDLES", 0)
      [] value = 2  -> Ok("STRUCT_HANDLES", 0)
      [] value = 3  -> Ok("FUNCTION_HANDLES", 0)
      [] value = 4  -> Ok("FUNCTION_INST", 0)
      [] value = 5  -> Ok("SIGNATURES", 0)
      [] value = 6  -> Ok("CONSTANT_POOL", 0)
      [] value = 7  -> Ok("IDENTIFIERS", 0)
      [] value = 8  -> Ok("ADDRESS_IDENTIFIERS", 0)
      [] value = 10 -> Ok("STRUCT_DEFS", 0)
      [] value = 11 -> Ok("STRUCT_DEF_INST", 0)
      [] value = 12 -> Ok("FUNCTION_DEFS", 0)
      [] value = 13 -> Ok("FIELD_HANDLE", 0)
      [] value = 14 -> Ok("FIELD_INST", 0)
      [] value = 15 -> Ok("FRIEND_DECLS", 0)
      [] value = 16 -> Ok("METADATA", 0)
      [] OTHER      -> Err("UNKNOWN_TABLE_TYPE", "", 0)

\* Table::new
Table(kind, offset, count) == [kind |-> kind, offset |-> offset, count |-> count]

\* VersionedCursor::new: the magic, then the version, which must be one of
\* 1..min(max_version, VERSION_MAX).
VersionedCursor_new(bytes, max_version) ==
    LET magic == read(bytes, 0, Len(MOVE_MAGIC))
    IN  IF magic.val # MOVE_MAGIC THEN Err("BAD_MAGIC", "", magic.pos)
        ELSE LET v == read_uleb128_as_u64(bytes, magic.pos)
             IN  IF ~v.ok THEN Err("MALFORMED", "Bad binary header", v.pos)
                 ELSE IF v.val = 0 \/ v.val > max_version \/ v.val > VERSION_MAX
                      THEN Err("UNKNOWN_VERSION", "", v.pos)
                      ELSE v

load_table_count(bytes, pos) ==
    read_uleb_internal(bytes, pos, TABLE_COUNT_MAX, U8_MAX)

load_table_offset(bytes, pos) ==
    read_uleb_internal(bytes, pos, TABLE_OFFSET_MAX, U32_MAX)

load_table_size(bytes, pos) ==
    read_uleb_internal(bytes, pos, TABLE_SIZE_MAX, U32_MAX)

\* A variant of read_table that converts the kind before it reads the
\* offset and the size.
read_table_kind_first(bytes, pos) ==
    LET kind == read_u8(bytes, pos)
    IN  IF ~kind.ok THEN Err("MALFORMED", "Error reading table", kind.pos)
        ELSE LET ty == TableType_from_u8(kind.val)
                 table_offset == load_table_offset(bytes, kind.pos)
             IN  IF ~ty.ok THEN Err(ty.status, ty.msg, kind.pos)
                 ELSE IF ~table_offset.ok THEN table_offset
                 ELSE LET count == load_table_size(bytes, table_offset.pos)
                      IN  IF ~count.ok THEN count
                          ELSE Ok(Table(ty.val, table_offset.val, count.val),
                                  count.pos)

\* read_table: the kind byte, the offset, the size; the kind is converted last
read_table(bytes, pos) ==
    LET kind == read_u8(bytes, pos)
    IN  IF ~kind.ok THEN Err("MALFORMED", "Error reading table", kind.pos)
        ELSE LET table_offset == load_table_offset(bytes, kind.pos)
             IN  IF ~table_offset.ok THEN table_offset
                 ELSE LET count == load_table_size(bytes, table_offset.pos)
                          ty    == TableType_from_u8(kind.val)
                      IN  IF ~count.ok THEN count
                          ELSE IF ~ty.ok THEN Err(ty.status, ty.msg, count.pos)
                          ELSE Ok(Table(ty.val, table_offset.val, count.val),
                                  count.pos)

\* read_tables: table_count times read_table, pushing each on tables
RECURSIVE read_tables(_, _, _, _)
read_tables(bytes, pos, table_count, acc) ==
    IF table_count = 0 THEN Ok(acc, pos)
    ELSE LET t == read_table(bytes, pos)
         IN  IF ~t.ok THEN t
             ELSE read_tables(bytes, t.pos, table_count - 1, Append(acc, t.val))

\* tables.sort_by(|t1, t2| t1.offset.cmp(&t2.offset)): a stable sort
RECURSIVE insert_by_offset(_, _)
insert_by_offset(t, sorted) ==
    IF sorted = <<>> THEN <<t>>
    ELSE IF sorted[Len(sorted)].offset <= t.offset THEN Append(sorted, t)
    ELSE Append(insert_by_offset(t, SubSeq(sorted, 1, Len(sorted) - 1)),
                sorted[Len(sorted)])

RECURSIVE sort_by_offset(_)
sort_by_offset(ts) ==
    IF ts = <<>> THEN <<>>
    ELSE insert_by_offset(ts[Len(ts)], sort_by_offset(SubSeq(ts, 1, Len(ts) - 1)))

\* current_offset.checked_add(table.count): None on u32 overflow
checked_add(a, b) ==
    IF b > U32_MAX - a THEN Err("OVERFLOW", "", 0) ELSE Ok(a + b, 0)

\* A variant of check_table that accepts a table of size 0.
check_table_no_count_check(table, current_offset, table_types, binary_len) ==
    LET sum == checked_add(current_offset, table.count)
    IN  IF table.offset # current_offset THEN Err("BAD_HEADER_TABLE", "", 0)
        ELSE IF ~sum.ok THEN Err("BAD_HEADER_TABLE", "", 0)
        ELSE IF table.kind \in table_types THEN Err("DUPLICATE_TABLE", "", 0)
        ELSE IF sum.val > binary_len THEN Err("BAD_HEADER_TABLE", "", 0)
        ELSE Ok(sum.val, 0)

\* A variant of check_table that does not compare the table's offset with
\* the running offset.
check_table_no_offset_check(table, current_offset, table_types, binary_len) ==
    LET sum == checked_add(current_offset, table.count)
    IN  IF table.count = 0 THEN Err("BAD_HEADER_TABLE", "", 0)
        ELSE IF ~sum.ok THEN Err("BAD_HEADER_TABLE", "", 0)
        ELSE IF table.kind \in table_types THEN Err("DUPLICATE_TABLE", "", 0)
        ELSE IF sum.val > binary_len THEN Err("BAD_HEADER_TABLE", "", 0)
        ELSE Ok(sum.val, 0)

\* A variant of check_table that looks for a repeated kind only after the
\* comparison with binary_len.
check_table_late_duplicate_check(table, current_offset, table_types, binary_len) ==
    LET sum == checked_add(current_offset, table.count)
    IN  IF table.offset # current_offset THEN Err("BAD_HEADER_TABLE", "", 0)
        ELSE IF table.count = 0 THEN Err("BAD_HEADER_TABLE", "", 0)
        ELSE IF ~sum.ok THEN Err("BAD_HEADER_TABLE", "", 0)
        ELSE IF sum.val > binary_len THEN Err("BAD_HEADER_TABLE", "", 0)
        ELSE IF table.kind \in table_types THEN Err("DUPLICATE_TABLE", "", 0)
        ELSE Ok(sum.val, 0)

\* A variant of check_table without the comparison with binary_len.
check_table_no_length_check(table, current_offset, table_types, binary_len) ==
    LET sum == checked_add(current_offset, table.count)
    IN  IF table.offset # current_offset THEN Err("BAD_HEADER_TABLE", "", 0)
        ELSE IF table.count = 0 THEN Err("BAD_HEADER_TABLE", "", 0)
        ELSE IF ~sum.ok THEN Err("BAD_HEADER_TABLE", "", 0)
        ELSE IF table.kind \in table_types THEN Err("DUPLICATE_TABLE", "", 0)
        ELSE Ok(sum.val, 0)

\* A variant of check_table that accepts a table that does not start where
\* the table before it ends.
check_table_gap_accepted(table, current_offset, table_types, binary_len) ==
    LET sum == checked_add(current_offset, table.count)
    IN  IF table.count = 0 THEN Err("BAD_HEADER_TABLE", "", 0)
        ELSE IF ~sum.ok THEN Err("BAD_HEADER_TABLE", "", 0)
        ELSE IF table.kind \in table_types THEN Err("DUPLICATE_TABLE", "", 0)
        ELSE IF sum.val > binary_len THEN Err("BAD_HEADER_TABLE", "", 0)
        ELSE Ok(sum.val, 0)

\* One iteration of check_tables' loop: Ok(the new current_offset) or the
\* error it returns.
check_table(table, current_offset, table_types, binary_len) ==
    LET sum == checked_add(current_offset, table.count)
    IN  IF table.offset # current_offset THEN Err("BAD_HEADER_TABLE", "", 0)
        ELSE IF table.count = 0 THEN Err("BAD_HEADER_TABLE", "", 0)
        ELSE IF ~sum.ok THEN Err("BAD_HEADER_TABLE", "", 0)
        ELSE IF table.kind \in table_types THEN Err("DUPLICATE_TABLE", "", 0)
        ELSE IF sum.val > binary_len THEN Err("BAD_HEADER_TABLE", "", 0)
        ELSE Ok(sum.val, 0)

RECURSIVE check_tables_loop(_, _, _, _, _)
check_tables_loop(ts, i, current_offset, table_types, binary_len) ==
    IF i > Len(ts) THEN Ok(current_offset, 0)
    ELSE LET r == check_table(ts[i], current_offset, table_types, binary_len)
         IN  IF ~r.ok THEN r
             ELSE check_tables_loop(ts, i + 1, r.val,
                                    table_types \cup {ts[i].kind}, binary_len)

\* check_tables on the sorted tables: Ok(content length) or the error
check_tables(sorted, binary_len) ==
    check_tables_loop(sorted, 1, 0, {}, binary_len)

-----------------------------------------------------------------------------
(* The steps of deserialize_compiled_module / deserialize_compiled_script *)

TopNone == [ok |-> FALSE, status |-> "NONE", msg |-> "", stage |-> "", val |-> <<>>]

TopErr(r, stage) ==
    [ok |-> FALSE, status |-> r.status, msg |-> r.msg, stage |-> stage, val |-> <<>>]

TopOk(v, stage) ==
    [ok |-> TRUE, status |-> "OK", msg |-> "", stage |-> stage, val |-> v]

\* CompiledModule / CompiledScript with Default::default() in every pool
EmptyUnit ==
    [self_module_handle_idx |-> 0,
     type_parameters |-> <<>>, parameters |-> 0, code |-> <<>>,
     module_handles |-> <<>>, struct_handles |-> <<>>,
     function_handles |-> <<>>, function_instantiations |-> <<>>,
     signatures |-> <<>>, identifiers |-> <<>>, address_identifiers |-> <<>>,
     constant_pool |-> <<>>, metadata |-> <<>>,
     struct_defs |-> <<>>, struct_def_instantiations |-> <<>>,
     function_defs |-> <<>>, field_handles |-> <<>>,
     field_instantiations |-> <<>>, friend_decls |-> <<>>]

UnitEntries == {"module", "script"}

\* let mut cursor = VersionedCursor::new(binary, max_binary_format_version)?
NewCursor ==
    /\ pc = "start"
    /\ entry \in UnitEntries
    /\ \E c \in {VersionedCursor_new(binary, VERSION_MAX)} :
           /\ cursor' = c.pos
           /\ IF c.ok
              THEN /\ pc' = "cursor"
                   /\ version' = c.val
                   /\ UNCHANGED result
              ELSE /\ pc' = "done"
                   /\ result' = TopErr(c, "VersionedCursor::new")
                   /\ UNCHANGED version
    /\ UNCHANGED <<binary, entry, vm_state, prev_state, storage, gas, tables, content_len,
                   table_contents, unit, stack, code,
                   bytecode_count>>

\* let table_count = load_table_count(&mut cursor)?;
\* read_tables(&mut cursor, table_count, &mut tables)?
ReadTables ==
    /\ pc = "cursor"
    /\ entry \in UnitEntries
    /\ \E table_count \in {load_table_count(binary, cursor)} :
       \E ts \in {IF table_count.ok
                  THEN read_tables(binary, table_count.pos, table_count.val, <<>>)
                  ELSE table_count} :
           /\ cursor' = ts.pos
           /\ IF ts.ok
              THEN /\ pc' = "tables_read"
                   /\ tables' = ts.val
                   /\ UNCHANGED result
              ELSE /\ pc' = "done"
                   /\ result' = TopErr(ts, "read_tables")
                   /\ UNCHANGED tables
    /\ UNCHANGED <<binary, entry, vm_state, prev_state, storage, gas, version, content_len,
                   table_contents, unit, stack, code,
                   bytecode_count>>

\* let content_len = check_tables(&mut tables, binary_len)?
\* with binary_len = binary.len(); tables is sorted in place, whatever follows
CheckTables ==
    /\ pc = "tables_read"
    /\ entry \in UnitEntries
    /\ \E sorted \in {sort_by_offset(tables)} :
       \E r \in {check_tables(sorted, Len(binary))} :
           /\ tables' = sorted
           /\ IF r.ok
              THEN /\ pc' = "tables_checked"
                   /\ content_len' = r.val
                   /\ UNCHANGED result
              ELSE /\ pc' = "done"
                   /\ result' = TopErr(r, "check_tables")
                   /\ UNCHANGED content_len
    /\ UNCHANGED <<binary, entry, vm_state, prev_state, storage, gas, cursor, version, table_contents, unit,
                   stack, code, bytecode_count>>

-----------------------------------------------------------------------------
(* Inputs: binaries in the wire format *)

RECURSIVE EncodeUleb(_)
EncodeUleb(n) ==
    IF n < 128 THEN <<n>> ELSE <<128 + (n % 128)>> \o EncodeUleb(n \div 128)

\* a directory entry [kind byte, offset, count] on the wire
EncodeEntry(e) == <<e.kind>> \o EncodeUleb(e.offset) \o EncodeUleb(e.count)

RECURSIVE EncodeDirectory(_)
EncodeDirectory(dir) ==
    IF dir = <<>> THEN <<>>
    ELSE EncodeEntry(dir[1]) \o EncodeDirectory(SubSeq(dir, 2, Len(dir)))

\* magic, version, table count, directory, then the bytes that follow it
EncodeBinary(v, dir, rest) ==
    MOVE_MAGIC \o EncodeUleb(v) \o EncodeUleb(Len(dir)) \o EncodeDirectory(dir)
               \o rest

RECURSIVE SeqsOfLen(_, _)
SeqsOfLen(S, n) ==
    IF n = 0 THEN {<<>>}
    ELSE {Append(s, x) : s \in SeqsOfLen(S, n - 1), x \in S}

SeqsUpTo(S, n) == UNION {SeqsOfLen(S, k) : k \in 0 .. n}

Zeros(n) == [i \in 1 .. n |-> 0]

\* enum GasStrategy: Metered(GasAmount), DryRun, Unmetered
Metered(amount) == [strategy |-> "Metered", amount |-> amount]

DryRun == [strategy |-> "DryRun", amount |-> 0]

Unmetered == [strategy |-> "Unmetered", amount |-> 0]

\* the quantities every initial state sets aside
Idle ==
    /\ vm_state = "OTHER"
    /\ prev_state = "OTHER"
    /\ storage = {}
    /\ gas = Unmetered
    /\ tables = <<>>
    /\ content_len = 0
    /\ table_contents = <<>>
    /\ unit = EmptyUnit
    /\ stack = <<>>
    /\ code = <<>>
    /\ bytecode_count = 0
    /\ result = TopNone

-----------------------------------------------------------------------------
(* SpecTables: the header and check_tables on a range of directories *)

MaxTables == 2
MaxOffset == 2
MaxCount == 1
MaxRest == 1

\* the length of a binary with one small table and MaxRest bytes after it
FarCount == Len(MOVE_MAGIC) + 5 + MaxRest

TablesKindBytes == {1, 7}

TablesEntries ==
    {[kind |-> k, offset |-> o, count |-> c] :
        k \in TablesKindBytes, o \in 0 .. MaxOffset,
        c \in (0 .. MaxCount) \cup {FarCount}}

\* offsets 0 and 5 with sizes 3 and 4: a gap at byte 3
GapDirectory ==
    <<[kind |-> 1, offset |-> 0, count |-> 3],
      [kind |-> 7, offset |-> 5, count |-> 4]>>

\* a second table whose end is beyond u32
OverflowDirectory ==
    <<[kind |-> 1, offset |-> 0, count |-> 1],
      [kind |-> 7, offset |-> 1, count |-> U32_MAX]>>

\* a repeated kind on a table that also ends beyond the binary
DuplicateBeyondDirectory ==
    <<[kind |-> 7, offset |-> 0, count |-> 1],
      [kind |-> 7, offset |-> 1, count |-> 100]>>

\* two well laid out tables, the second ending beyond the binary
BeyondDirectory ==
    <<[kind |-> 1, offset |-> 0, count |-> 1],
      [kind |-> 7, offset |-> 1, count |-> 100]>>

\* entries of unknown kinds, and entries whose offset is above
\* TABLE_OFFSET_MAX, alone, before and after an entry of TablesEntries
UnknownKindBytes == {0, 9, 17, 255}

OddEntries ==
    {[kind |-> k, offset |-> o, count |-> c] :
        k \in UnknownKindBytes \cup {1}, o \in {0, 2, TABLE_OFFSET_MAX + 1},
        c \in {0, 1}} \ TablesEntries

OddDirectories ==
    {<<e>> : e \in OddEntries}
        \cup {<<e, t>> : e \in OddEntries, t \in TablesEntries}
        \cup {<<t, e>> : e \in OddEntries, t \in TablesEntries}

TablesDirectories ==
    SeqsUpTo(TablesEntries, MaxTables)
        \cup {GapDirectory, OverflowDirectory, DuplicateBeyondDirectory,
              BeyondDirectory}
        \cup OddDirectories

InitTables ==
    /\ entry = "module"
    /\ pc = "start"
    /\ \E dir \in TablesDirectories, n \in 0 .. MaxRest :
          binary = EncodeBinary(VERSION_MAX, dir, Zeros(n))
    /\ cursor = 0
    /\ version = 0
    /\ Idle

NextTables == NewCursor \/ ReadTables \/ CheckTables

SpecTables == InitTables /\ [][NextTables]_vars

-----------------------------------------------------------------------------
(* Claims C1-C4: check_tables *)

RECURSIVE SumCounts(_, _)
SumCounts(ts, n) == IF n = 0 THEN 0 ELSE SumCounts(ts, n - 1) + ts[n].count

\* check_tables has run
Checked ==
    \/ pc = "tables_checked"
    \/ pc = "done" /\ result.stage = "check_tables"

\* check_tables returned an error with one of these statuses
RejectedWith(statuses) ==
    /\ pc = "done"
    /\ result.stage = "check_tables"
    /\ ~result.ok
    /\ result.status \in statuses

HasGap(ts) == \E i \in 1 .. Len(ts) : ts[i].offset # SumCounts(ts, i - 1)

HasEmptyTable(ts) == \E i \in 1 .. Len(ts) : ts[i].count = 0

HasDuplicateKind(ts) ==
    \E i, j \in 1 .. Len(ts) : i < j /\ ts[i].kind = ts[j].kind

IsGapDirectory(ts) ==
    /\ Len(ts) = 2
    /\ ts[1].offset = 0 /\ ts[1].count = 3
    /\ ts[2].offset = 5 /\ ts[2].count = 4

\* the directory as read_tables pushed it, before the sort
DirectoryRead ==
    LET c == VersionedCursor_new(binary, VERSION_MAX)
        n == load_table_count(binary, c.pos)
    IN  read_tables(binary, n.pos, n.val, <<>>).val

Occurrences(ts, t) == Cardinality({i \in 1 .. Len(ts) : ts[i] = t})

\* C1: a directory that, sorted by offset, has an entry whose offset is not
\* the sum of the sizes before it, or an entry of size 0, or two entries of
\* one kind, makes check_tables return BAD_HEADER_TABLE or DUPLICATE_TABLE,
\* never Ok; offsets 0 and 5 with sizes 3 and 4 give BAD_HEADER_TABLE.
C1_BadLayoutRejected ==
    (Checked /\ (HasGap(tables) \/ HasEmptyTable(tables)
                    \/ HasDuplicateKind(tables)))
        => /\ RejectedWith({"BAD_HEADER_TABLE", "DUPLICATE_TABLE"})
           /\ IsGapDirectory(tables) => result.status = "BAD_HEADER_TABLE"

C1_Witness ==
    /\ RejectedWith({"BAD_HEADER_TABLE"})
    /\ IsGapDirectory(tables)

\* C2: when check_tables returns Ok(n) the tables are the entries read,
\* sorted by offset, the first at offset 0, each at the end of the one
\* before it, none of size 0, their kinds pairwise distinct, and n is the
\* sum of their sizes (0 for an empty directory).
C2_OkLayout ==
    pc = "tables_checked"
        => /\ \A i \in 1 .. Len(tables) - 1 :
                 /\ tables[i].offset <= tables[i + 1].offset
                 /\ tables[i + 1].offset = tables[i].offset + tables[i].count
           /\ Len(tables) > 0 => tables[1].offset = 0
           /\ \A i \in 1 .. Len(tables) : tables[i].count > 0
           /\ ~HasDuplicateKind(tables)
           /\ content_len = SumCounts(tables, Len(tables))
           /\ tables = <<>> => content_len = 0
           /\ Len(tables) = Len(DirectoryRead)
           /\ \A i \in 1 .. Len(tables) :
                 Occurrences(tables, tables[i]) = Occurrences(DirectoryRead, tables[i])

\* accepted, and the directory was not in offset order on the wire
C2_Witness ==
    /\ pc = "tables_checked"
    /\ Len(tables) = 2
    /\ content_len = 2
    /\ DirectoryRead # tables

\* the first entry, in offset order, whose kind an earlier entry has
FirstRepeat(ts) ==
    CHOOSE j \in 1 .. Len(ts) :
        /\ \E i \in 1 .. j - 1 : ts[i].kind = ts[j].kind
        /\ \A k \in 1 .. j - 1 : ~ \E i \in 1 .. k - 1 : ts[i].kind = ts[k].kind

\* entries 1..j continue the running offset, are not empty and do not
\* overflow u32, and the entries before j end within the binary
WellLaidUpTo(ts, j, binary_len) ==
    /\ \A i \in 1 .. j :
          /\ ts[i].offset = SumCounts(ts, i - 1)
          /\ ts[i].count > 0
          /\ SumCounts(ts, i) <= U32_MAX
    /\ \A i \in 1 .. j - 1 : SumCounts(ts, i) <= binary_len

\* C3 as stated: a directory with two entries of one kind is rejected with
\* DUPLICATE_TABLE.
C3_Original ==
    (Checked /\ HasDuplicateKind(tables)) => RejectedWith({"DUPLICATE_TABLE"})

\* C3 as amended: a directory with two entries of one kind is rejected by
\* check_tables, with DUPLICATE_TABLE when, in offset order, the entries up
\* to the first repeat of a kind continue the running offset, are not empty
\* and do not overflow, and those before it end within binary_len; with
\* BAD_HEADER_TABLE otherwise.
C3_DuplicateRejected ==
    (Checked /\ HasDuplicateKind(tables))
        => IF WellLaidUpTo(tables, FirstRepeat(tables), Len(binary))
           THEN RejectedWith({"DUPLICATE_TABLE"})
           ELSE RejectedWith({"BAD_HEADER_TABLE"})

C3_Witness ==
    /\ RejectedWith({"DUPLICATE_TABLE"})
    /\ Len(tables) = 2
    /\ tables[1].kind = "IDENTIFIERS"
    /\ tables[2].kind = "IDENTIFIERS"

\* the largest end of a table the directory declares
DeclaredEnd(ts) ==
    IF ts = <<>> THEN 0
    ELSE LET ends == {ts[i].offset + ts[i].count : i \in 1 .. Len(ts)}
         IN  CHOOSE e \in ends : \A f \in ends : f <= e

\* the bytes of the input after the header and the directory
RemainingBytes == Len(binary) - cursor

\* C4 as stated: check_tables accepts only if the content length is at most
\* the bytes remaining after the header and the directory, content that
\* extends past them is rejected with BAD_HEADER_TABLE, and every failure of
\* check_tables is BAD_HEADER_TABLE or DUPLICATE_TABLE.
C4_Original ==
    /\ pc = "tables_checked" => content_len <= RemainingBytes
    /\ (Checked /\ DeclaredEnd(tables) > RemainingBytes)
          => RejectedWith({"BAD_HEADER_TABLE"})
    /\ (pc = "done" /\ result.stage = "check_tables")
          => result.status \in {"BAD_HEADER_TABLE", "DUPLICATE_TABLE"}

\* C4 as amended: check_tables accepts only if the content length is at most
\* binary_len, the length of the whole input; a directory that declares
\* content past binary_len is rejected, with BAD_HEADER_TABLE when it is
\* otherwise well laid out with distinct kinds, and every failure of
\* check_tables is BAD_HEADER_TABLE or DUPLICATE_TABLE.
C4_LengthChecked ==
    /\ pc = "tables_checked" => content_len <= Len(binary)
    /\ (Checked /\ DeclaredEnd(tables) > Len(binary))
          => /\ RejectedWith({"BAD_HEADER_TABLE", "DUPLICATE_TABLE"})
             /\ (~HasGap(tables) /\ ~HasEmptyTable(tables)
                    /\ ~HasDuplicateKind(tables))
                   => RejectedWith({"BAD_HEADER_TABLE"})
    /\ (pc = "done" /\ result.stage = "check_tables")
          => result.status \in {"BAD_HEADER_TABLE", "DUPLICATE_TABLE"}

\* accepted, with more content declared than bytes follow the directory
C4_Witness ==
    /\ pc = "tables_checked"
    /\ content_len > RemainingBytes
    /\ content_len = Len(binary)

-----------------------------------------------------------------------------
(* load_signature_token *)

\* SignatureToken: the variant, its index (Struct, StructInstantiation,
\* TypeParameter) and its type arguments (Vector, Reference,
\* MutableReference, StructInstantiation)
Token(tag, idx, args) == [tag |-> tag, idx |-> idx, args |-> args]

NoToken == Token("none", 0, <<>>)

\* enum TypeBuilder
Saturated(tok) ==
    [kind |-> "Saturated", tok |-> tok, sh_idx |-> 0, arity |-> 0,
     ty_args |-> <<>>]

Constructor(kind) ==
    [kind |-> kind, tok |-> NoToken, sh_idx |-> 0, arity |-> 0,
     ty_args |-> <<>>]

StructInst(sh_idx, arity, ty_args) ==
    [kind |-> "StructInst", tok |-> NoToken, sh_idx |-> sh_idx,
     arity |-> arity, ty_args |-> ty_args]

\* the builder left by a call that reached unreachable!()
Unreachable == Constructor("unreachable")

\* A variant of TypeBuilder::apply that saturates a StructInst only when it
\* holds more type arguments than its arity.
apply_arity_exceeded(self, tok) ==
    CASE self.kind = "Vector" -> Saturated(Token("Vector", 0, <<tok>>))
      [] self.kind = "Reference" -> Saturated(Token("Reference", 0, <<tok>>))
      [] self.kind = "MutableReference" ->
            Saturated(Token("MutableReference", 0, <<tok>>))
      [] self.kind = "StructInst" ->
            LET ty_args == Append(self.ty_args, tok)
            IN  IF Len(ty_args) > self.arity
                THEN Saturated(Token("StructInstantiation", self.sh_idx, ty_args))
                ELSE StructInst(self.sh_idx, self.arity, ty_args)
      [] OTHER -> Unreachable

\* TypeBuilder::apply
apply(self, tok) ==
    CASE self.kind = "Vector" -> Saturated(Token("Vector", 0, <<tok>>))
      [] self.kind = "Reference" -> Saturated(Token("Reference", 0, <<tok>>))
      [] self.kind = "MutableReference" ->
            Saturated(Token("MutableReference", 0, <<tok>>))
      [] self.kind = "StructInst" ->
            LET ty_args == Append(self.ty_args, tok)
            IN  IF Len(ty_args) >= self.arity
                THEN Saturated(Token("StructInstantiation", self.sh_idx, ty_args))
                ELSE StructInst(self.sh_idx, self.arity, ty_args)
      [] OTHER -> Unreachable

\* TypeBuilder::is_saturated
is_saturated(self) == self.kind = "Saturated"

\* SerializedType::from_u8
SerializedType_from_u8(value) ==
    CASE value = 1 -> Ok("BOOL", 0)
      [] value = 2 -> Ok("U8", 0)
      [] value = 3 -> Ok("U64", 0)
      [] value = 4 -> Ok("U128", 0)
      [] value = 5 -> Ok("ADDRESS", 0)
      [] value = 6 -> Ok("REFERENCE", 0)
      [] value = 7 -> Ok("MUTABLE_REFERENCE", 0)
      [] value = 8 -> Ok("STRUCT", 0)
      [] value = 9 -> Ok("TYPE_PARAMETER", 0)
      [] value = 10 -> Ok("VECTOR", 0)
      [] value = 11 -> Ok("STRUCT_INST", 0)
      [] value = 12 -> Ok("SIGNER", 0)
      [] value = 13 -> Ok("U16", 0)
      [] value = 14 -> Ok("U32", 0)
      [] value = 15 -> Ok("U256", 0)
      [] OTHER -> Err("UNKNOWN_SERIALIZED_TYPE", "", 0)

load_struct_handle_index(bytes, pos) ==
    read_uleb_internal(bytes, pos, STRUCT_HANDLE_INDEX_MAX, U16_MAX)

load_type_parameter_count(bytes, pos) ==
    read_uleb_internal(bytes, pos, TYPE_PARAMETER_COUNT_MAX, U64_MAX)

load_type_parameter_index(bytes, pos) ==
    read_uleb_internal(bytes, pos, TYPE_PARAMETER_INDEX_MAX, U16_MAX)

GatedTypes == {"U16", "U32", "U256"}

\* the SignatureToken of a SerializedType without operands
PrimitiveToken(ty) ==
    CASE ty = "BOOL" -> Token("Bool", 0, <<>>)
      [] ty = "U8" -> Token("U8", 0, <<>>)
      [] ty = "U16" -> Token("U16", 0, <<>>)
      [] ty = "U32" -> Token("U32", 0, <<>>)
      [] ty = "U64" -> Token("U64", 0, <<>>)
      [] ty = "U128" -> Token("U128", 0, <<>>)
      [] ty = "U256" -> Token("U256", 0, <<>>)
      [] ty = "ADDRESS" -> Token("Address", 0, <<>>)
      [] ty = "SIGNER" -> Token("Signer", 0, <<>>)

\* the STRUCT_INST arm without the check of the arity
read_struct_inst_any_arity(bytes, pos) ==
    LET sh_idx == load_struct_handle_index(bytes, pos)
        arity  == load_type_parameter_count(bytes, sh_idx.pos)
    IN  IF ~sh_idx.ok THEN sh_idx
        ELSE IF ~arity.ok THEN arity
        ELSE Ok(StructInst(sh_idx.val, arity.val, <<>>), arity.pos)

\* the STRUCT_INST arm of read_next, from the byte after the tag
read_struct_inst(bytes, pos) ==
    LET sh_idx == load_struct_handle_index(bytes, pos)
        arity  == load_type_parameter_count(bytes, sh_idx.pos)
    IN  IF ~sh_idx.ok THEN sh_idx
        ELSE IF ~arity.ok THEN arity
        ELSE IF arity.val = 0
             THEN Err("MALFORMED", "Struct inst with arity 0", arity.pos)
             ELSE Ok(StructInst(sh_idx.val, arity.val, <<>>), arity.pos)

UnsupportedIntegers == "u16, u32, u256 integers not supported in bytecode version"

\* read_next with the version gate one version too low
read_next_gate_at_5(bytes, pos, ver) ==
    LET byte == read_u8(bytes, pos)
        ty   == SerializedType_from_u8(byte.val)
    IN  IF ~byte.ok THEN Err("MALFORMED", "Unexpected EOF", byte.pos)
        ELSE IF ~ty.ok THEN Err(ty.status, ty.msg, byte.pos)
        ELSE IF ty.val \in GatedTypes /\ ver < VERSION_5
             THEN Err("MALFORMED", UnsupportedIntegers, byte.pos)
        ELSE CASE ty.val = "VECTOR" -> Ok(Constructor("Vector"), byte.pos)
               [] ty.val = "REFERENCE" -> Ok(Constructor("Reference"), byte.pos)
               [] ty.val = "MUTABLE_REFERENCE" ->
                     Ok(Constructor("MutableReference"), byte.pos)
               [] ty.val = "STRUCT" ->
                     LET sh_idx == load_struct_handle_index(bytes, byte.pos)
                     IN  IF ~sh_idx.ok THEN sh_idx
                         ELSE Ok(Saturated(Token("Struct", sh_idx.val, <<>>)),
                                 sh_idx.pos)
               [] ty.val = "STRUCT_INST" -> read_struct_inst(bytes, byte.pos)
               [] ty.val = "TYPE_PARAMETER" ->
                     LET idx == load_type_parameter_index(bytes, byte.pos)
                     IN  IF ~idx.ok THEN idx
                         ELSE Ok(Saturated(Token("TypeParameter", idx.val, <<>>)),
                                 idx.pos)
               [] OTHER -> Ok(Saturated(PrimitiveToken(ty.val)), byte.pos)

\* the closure read_next: one TypeBuilder from the next tag and its operands
read_next(bytes, pos, ver) ==
    LET byte == read_u8(bytes, pos)
        ty   == SerializedType_from_u8(byte.val)
    IN  IF ~byte.ok THEN Err("MALFORMED", "Unexpected EOF", byte.pos)
        ELSE IF ~ty.ok THEN Err(ty.status, ty.msg, byte.pos)
        ELSE IF ty.val \in GatedTypes /\ ver < VERSION_6
             THEN Err("MALFORMED", UnsupportedIntegers, byte.pos)
        ELSE CASE ty.val = "VECTOR" -> Ok(Constructor("Vector"), byte.pos)
               [] ty.val = "REFERENCE" -> Ok(Constructor("Reference"), byte.pos)
               [] ty.val = "MUTABLE_REFERENCE" ->
                     Ok(Constructor("MutableReference"), byte.pos)
               [] ty.val = "STRUCT" ->
                     LET sh_idx == load_struct_handle_index(bytes, byte.pos)
                     IN  IF ~sh_idx.ok THEN sh_idx
                         ELSE Ok(Saturated(Token("Struct", sh_idx.val, <<>>)),
                                 sh_idx.pos)
               [] ty.val = "STRUCT_INST" -> read_struct_inst(bytes, byte.pos)
               [] ty.val = "TYPE_PARAMETER" ->
                     LET idx == load_type_parameter_index(bytes, byte.pos)
                     IN  IF ~idx.ok THEN idx
                         ELSE Ok(Saturated(Token("TypeParameter", idx.val, <<>>)),
                                 idx.pos)
               [] OTHER -> Ok(Saturated(PrimitiveToken(ty.val)), byte.pos)

\* The outcome of a piece of load_signature_token: done with the result
\* res, or the stack and the cursor position to go on with.
SigDone(res) == [done |-> TRUE, res |-> res, stack |-> <<>>, pos |-> res.pos]

SigMore(stack_, pos) ==
    [done |-> FALSE, res |-> NoResult, stack |-> stack_, pos |-> pos]

\* stack.push(read_next()?)
push_next(stack_, t) ==
    IF ~t.ok THEN SigDone(t) ELSE SigMore(Append(stack_, t.val), t.pos)

\* let mut stack = match read_next()? { Saturated(tok) => return Ok(tok),
\*                                      t => vec![t] }
first_next(t) ==
    IF t.ok /\ is_saturated(t.val) THEN SigDone(Ok(t.val.tok, t.pos))
    ELSE push_next(<<>>, t)

sig_start(bytes, pos, ver) == first_next(read_next(bytes, pos, ver))

\* A variant of pop_apply that leaves the stack as it is when there is a
\* builder under the top.
pop_apply_nothing_popped(stack_, pos) ==
    LET n == Len(stack_)
    IN  IF n = 1 THEN SigDone(Ok(stack_[n].tok, pos))
        ELSE SigMore(stack_, pos)

\* let tok = stack.pop().unwrap().unwrap_saturated();
\* match stack.pop() { Some(t) => stack.push(t.apply(tok)),
\*                     None => return Ok(tok) }
pop_apply(stack_, pos) ==
    LET n == Len(stack_)
    IN  IF n = 1 THEN SigDone(Ok(stack_[n].tok, pos))
        ELSE IF is_saturated(stack_[n - 1])
        THEN SigDone(Err("PANIC", "invalid type constructor application", pos))
        ELSE SigMore(Append(SubSeq(stack_, 1, n - 2),
                            apply(stack_[n - 1], stack_[n].tok)), pos)

\* an iteration of the loop that lets a stack of the depth maximum + 1 pass
sig_iteration_depth_off_by_one(bytes, pos, ver, stack_) ==
    IF Len(stack_) > SIGNATURE_TOKEN_DEPTH_MAX + 1
    THEN SigDone(Err("MALFORMED", "Maximum recursion depth reached", pos))
    ELSE IF is_saturated(stack_[Len(stack_)]) THEN pop_apply(stack_, pos)
    ELSE push_next(stack_, read_next(bytes, pos, ver))

\* one iteration of the loop on a non-empty stack
sig_iteration(bytes, pos, ver, stack_) ==
    IF Len(stack_) > SIGNATURE_TOKEN_DEPTH_MAX
    THEN SigDone(Err("MALFORMED", "Maximum recursion depth reached", pos))
    ELSE IF is_saturated(stack_[Len(stack_)]) THEN pop_apply(stack_, pos)
    ELSE push_next(stack_, read_next(bytes, pos, ver))

\* the loop, from a non-empty stack to the result
RECURSIVE sig_loop(_, _, _, _)
sig_continue(bytes, ver, s) ==
    IF s.done THEN s.res ELSE sig_loop(bytes, s.pos, ver, s.stack)

sig_loop(bytes, pos, ver, stack_) ==
    sig_continue(bytes, ver, sig_iteration(bytes, pos, ver, stack_))

load_signature_token(bytes, pos, ver) ==
    sig_continue(bytes, ver, sig_start(bytes, pos, ver))

\* load_signature_token, step by step, on the stream in binary
SigEntries == {"signature_token"}

\* what a piece of load_signature_token leaves: the loop goes on with the
\* new stack, or the function returns its result
SigOutcome(s, stage) ==
    /\ cursor' = s.pos
    /\ IF s.done
       THEN /\ pc' = "done"
            /\ result' = IF s.res.ok
                         THEN TopOk(s.res.val, "load_signature_token")
                         ELSE TopErr(s.res, stage)
            /\ stack' = IF s.res.ok THEN <<>> ELSE stack
       ELSE /\ pc' = "sig_loop"
            /\ stack' = s.stack
            /\ UNCHANGED result
    /\ UNCHANGED <<binary, entry, vm_state, prev_state, storage, gas, version, tables, content_len,
                   table_contents, unit, code,
                   bytecode_count>>

SigStart ==
    /\ pc = "start"
    /\ entry \in SigEntries
    /\ \E s \in {sig_start(binary, cursor, version)} :
           SigOutcome(s, "read_next")

SigIteration ==
    /\ pc = "sig_loop"
    /\ entry \in SigEntries
    /\ \E s \in {sig_iteration(binary, cursor, version, stack)} :
           SigOutcome(s, "loop")

-----------------------------------------------------------------------------
(* SpecSig: load_signature_token on token streams *)

MaxSigLen == 3

SigVersions == {VERSION_1, VERSION_5, VERSION_6}

\* BOOL, MUTABLE_REFERENCE, TYPE_PARAMETER, STRUCT_INST, U256, no type,
\* and the bytes 0x00 and 0x80 for operands
SigBytes == {0, 1, 7, 9, 11, 15, 16, 128}

\* the tag byte of a token
TokenTag(tok) ==
    CASE tok.tag = "Bool" -> 1
      [] tok.tag = "U8" -> 2
      [] tok.tag = "U64" -> 3
      [] tok.tag = "U128" -> 4
      [] tok.tag = "Address" -> 5
      [] tok.tag = "Reference" -> 6
      [] tok.tag = "MutableReference" -> 7
      [] tok.tag = "Struct" -> 8
      [] tok.tag = "TypeParameter" -> 9
      [] tok.tag = "Vector" -> 10
      [] tok.tag = "StructInstantiation" -> 11
      [] tok.tag = "Signer" -> 12
      [] tok.tag = "U16" -> 13
      [] tok.tag = "U32" -> 14
      [] tok.tag = "U256" -> 15

\* the tag and the operands of a token on the wire
EncodeTokenHead(tok) ==
    <<TokenTag(tok)>>
        \o (IF tok.tag \in {"Struct", "TypeParameter"} THEN EncodeUleb(tok.idx)
            ELSE IF tok.tag = "StructInstantiation"
            THEN EncodeUleb(tok.idx) \o EncodeUleb(Len(tok.args))
            ELSE <<>>)

\* tokens on the wire, one after the other: each is its tag and operands
\* followed by its type arguments
RECURSIVE EncodeTokens(_)
EncodeTokens(toks) ==
    IF toks = <<>> THEN <<>>
    ELSE EncodeTokenHead(toks[1])
            \o EncodeTokens(toks[1].args \o SubSeq(toks, 2, Len(toks)))

EncodeToken(tok) == EncodeTokens(<<tok>>)

SigLeaves == {Token("Bool", 0, <<>>), Token("U16", 0, <<>>), Token("Struct", 1, <<>>)}

\* tokens of nesting depth at most d with one nested argument per node
RECURSIVE SpineTokens(_)
SpineTokens(d) ==
    IF d <= 1 THEN SigLeaves
    ELSE LET inner == SpineTokens(d - 1)
             bool  == Token("Bool", 0, <<>>)
         IN  SigLeaves
                \cup {Token("Vector", 0, <<t>>) : t \in inner}
                \cup {Token("StructInstantiation", 2, <<t>>) : t \in inner}
                \cup {Token("StructInstantiation", 3, <<bool, t>>) : t \in inner}
                \cup {Token("StructInstantiation", 3, <<t, bool>>) : t \in inner}

\* STRUCT_INST with arity 0: alone (0x0B <handle> 0x00), under a vector,
\* and as the second type argument of a struct instantiation
ArityZeroStreams ==
    {<<11, 0, 0>>, <<10, 11, 0, 0>>, <<11, 1, 2, 1, 11, 3, 0>>}

SigStreams ==
    {EncodeToken(t) : t \in SpineTokens(SIGNATURE_TOKEN_DEPTH_MAX + 1)}
        \cup SeqsUpTo(SigBytes, MaxSigLen)
        \cup ArityZeroStreams

InitSig ==
    /\ entry = "signature_token"
    /\ pc = "start"
    /\ binary \in SigStreams
    /\ cursor = 0
    /\ version \in SigVersions
    /\ Idle

NextSig == SigStart \/ SigIteration

SpecSig == InitSig /\ [][NextSig]_vars

-----------------------------------------------------------------------------
(* Claims C6-C8: load_signature_token *)

Max(S) == CHOOSE x \in S : \A y \in S : y <= x

\* the number of type nodes on the longest root-to-leaf path of a token
RECURSIVE TokenDepth(_)
TokenDepth(tok) ==
    IF tok.args = <<>> THEN 1
    ELSE 1 + Max({TokenDepth(tok.args[i]) : i \in 1 .. Len(tok.args)})

\* the tokens a token is made of, itself included
RECURSIVE TokenNodes(_)
TokenNodes(tok) ==
    {tok} \cup UNION {TokenNodes(tok.args[i]) : i \in 1 .. Len(tok.args)}

WireScanned(ok, depth, pos) == [ok |-> ok, depth |-> depth, pos |-> pos]

\* The grammar of a token on the wire, read without building it: open[k] is
\* the number of type arguments still to come at nesting level k.  A stream
\* starts with a well-formed token when every tag is a type of the version,
\* every operand is in range, and every STRUCT_INST has an arity of at
\* least 1 and that many arguments; depth is then its nesting depth.
RECURSIVE WireScan(_, _, _, _, _)
WireScan(bytes, pos, ver, open, deepest) ==
    IF open = <<>> THEN WireScanned(TRUE, deepest, pos)
    ELSE IF open[Len(open)] = 0
    THEN WireScan(bytes, pos, ver, SubSeq(open, 1, Len(open) - 1), deepest)
    ELSE IF pos >= Len(bytes) THEN WireScanned(FALSE, deepest, pos)
    ELSE LET tag   == bytes[pos + 1]
             level == Len(open)
             rest  == [open EXCEPT ![level] = @ - 1]
             deep  == IF level > deepest THEN level ELSE deepest
             idx   == read_uleb_internal(bytes, pos + 1, TABLE_INDEX_MAX, U16_MAX)
             tp    == load_type_parameter_index(bytes, pos + 1)
             arity == load_type_parameter_count(bytes, idx.pos)
         IN  CASE tag \in {1, 2, 3, 4, 5, 12} ->
                    WireScan(bytes, pos + 1, ver, rest, deep)
               [] tag \in {13, 14, 15} ->
                    IF ver < VERSION_6 THEN WireScanned(FALSE, deep, pos)
                    ELSE WireScan(bytes, pos + 1, ver, rest, deep)
               [] tag \in {6, 7, 10} ->
                    WireScan(bytes, pos + 1, ver, Append(rest, 1), deep)
               [] tag = 8 ->
                    IF ~idx.ok THEN WireScanned(FALSE, deep, pos)
                    ELSE WireScan(bytes, idx.pos, ver, rest, deep)
               [] tag = 9 ->
                    IF ~tp.ok THEN WireScanned(FALSE, deep, pos)
                    ELSE WireScan(bytes, tp.pos, ver, rest, deep)
               [] tag = 11 ->
                    IF ~idx.ok \/ ~arity.ok \/ arity.val = 0
                    THEN WireScanned(FALSE, deep, pos)
                    ELSE WireScan(bytes, arity.pos, ver,
                                  Append(rest, arity.val), deep)
               [] OTHER -> WireScanned(FALSE, deep, pos)

\* the well-formed token at the start of the stream, if there is one
WireToken == WireScan(binary, 0, version, <<1>>, 0)

SigReturned == entry \in SigEntries /\ pc = "done"

DepthRejected ==
    /\ ~result.ok
    /\ result.status = "MALFORMED"
    /\ result.msg = "Maximum recursion depth reached"

\* the token returned is the token on the wire, and the cursor is after it
TokenDecoded ==
    /\ result.ok
    /\ cursor = WireToken.pos
    /\ EncodeToken(result.val) = SubSeq(binary, 1, cursor)

\* C6: load_signature_token rejects a well-formed token whose nesting depth
\* (type nodes on its longest root-to-leaf path) exceeds
\* SIGNATURE_TOKEN_DEPTH_MAX with MALFORMED ("Maximum recursion depth
\* reached"), and decodes a well-formed token whose nesting depth is exactly
\* SIGNATURE_TOKEN_DEPTH_MAX.
C6_DepthGuard ==
    (SigReturned /\ WireToken.ok) =>
        /\ WireToken.depth > SIGNATURE_TOKEN_DEPTH_MAX => DepthRejected
        /\ WireToken.depth = SIGNATURE_TOKEN_DEPTH_MAX =>
              /\ TokenDecoded
              /\ TokenDepth(result.val) = SIGNATURE_TOKEN_DEPTH_MAX

\* a token one level too deep, with a struct instantiation in it, rejected
C6_Witness ==
    /\ SigReturned
    /\ WireToken.ok
    /\ WireToken.depth = SIGNATURE_TOKEN_DEPTH_MAX + 1
    /\ DepthRejected
    /\ \E i \in 1 .. Len(stack) : stack[i].kind = "StructInst"

\* load_signature_token is about to call read_next
ReadsNext ==
    /\ entry \in SigEntries
    /\ \/ pc = "start"
       \/ /\ pc = "sig_loop"
          /\ Len(stack) <= SIGNATURE_TOKEN_DEPTH_MAX
          /\ ~is_saturated(stack[Len(stack)])

\* the bytes at the cursor are the tag 0x0B, a handle index and the arity 0
ArityZeroAhead ==
    /\ cursor < Len(binary)
    /\ binary[cursor + 1] = 11
    /\ load_struct_handle_index(binary, cursor + 1).ok
    /\ LET arity == load_type_parameter_count(binary,
                        load_struct_handle_index(binary, cursor + 1).pos)
       IN  arity.ok /\ arity.val = 0

ArityZeroRejected ==
    /\ ~result.ok
    /\ result.status = "MALFORMED"
    /\ result.msg = "Struct inst with arity 0"

\* C7: when read_next meets a STRUCT_INST (tag 0x0B, handle index, arity)
\* with arity 0, load_signature_token returns MALFORMED ("Struct inst with
\* arity 0"); and every StructInstantiation of a token it returns has at
\* least one type argument, as many as the arity on the wire (the token
\* encodes to the bytes that were read).
C7_StructInstArity ==
    [][ /\ (ReadsNext /\ ArityZeroAhead) => (pc' = "done" /\ ArityZeroRejected')
        /\ (SigReturned' /\ result'.ok) =>
              /\ \A t \in TokenNodes(result'.val) :
                    t.tag = "StructInstantiation" => Len(t.args) >= 1
              /\ EncodeToken(result'.val) = SubSeq(binary', 1, cursor')
      ]_vars

\* a nested STRUCT_INST with arity 0, rejected
C7_Witness ==
    /\ SigReturned
    /\ ArityZeroRejected
    /\ stack # <<>>
    /\ SubSeq(binary, cursor - 2, cursor) = <<11, 0, 0>>

GatedTags == {13, 14, 15}

\* the token of a gated tag
GatedToken(tag) ==
    CASE tag = 13 -> Token("U16", 0, <<>>)
      [] tag = 14 -> Token("U32", 0, <<>>)
      [] tag = 15 -> Token("U256", 0, <<>>)

UnsupportedRejected ==
    /\ ~result.ok
    /\ result.status = "MALFORMED"
    /\ result.msg = UnsupportedIntegers

\* the state after the step is the outcome s of a piece of the function
IsOutcome(s) ==
    /\ cursor' = s.pos
    /\ IF s.done
       THEN /\ pc' = "done"
            /\ result'.ok = s.res.ok
            /\ result'.status = s.res.status
            /\ result'.msg = s.res.msg
            /\ s.res.ok => result'.val = s.res.val
       ELSE /\ pc' = "sig_loop"
            /\ stack' = s.stack

\* the piece of the function that runs next, at version ver
PieceAt(ver) ==
    IF pc = "start" THEN sig_start(binary, cursor, ver)
    ELSE sig_iteration(binary, cursor, ver, stack)

\* C8: wherever read_next meets a U16, U32 or U256 tag (0x0D, 0x0E, 0x0F),
\* at the top level or nested, the token is rejected with MALFORMED when
\* the version is below 6 and the tag decodes to its token when the version
\* is 6 or higher; on any other tag the decoder does what it does at every
\* other version.
C8_IntegerTagGate ==
    [][ (ReadsNext /\ cursor < Len(binary)) =>
          /\ (binary[cursor + 1] \in GatedTags /\ version < VERSION_6) =>
                (pc' = "done" /\ UnsupportedRejected')
          /\ (binary[cursor + 1] \in GatedTags /\ version >= VERSION_6) =>
                IF pc = "start"
                THEN /\ pc' = "done"
                     /\ result'.ok
                     /\ result'.val = GatedToken(binary[cursor + 1])
                ELSE /\ pc' = "sig_loop"
                     /\ stack' = Append(stack,
                                    Saturated(GatedToken(binary[cursor + 1])))
          /\ binary[cursor + 1] \notin GatedTags =>
                \A v \in Versions : IsOutcome(PieceAt(v))
      ]_vars

\* a nested U256 rejected at version 5
C8_Witness ==
    /\ SigReturned
    /\ UnsupportedRejected
    /\ version = VERSION_5
    /\ stack # <<>>
    /\ binary[cursor] = 15

-----------------------------------------------------------------------------
(* load_code *)

\* Opcodes::from_u8: the opcode of byte i is the i-th name, 0x01 .. 0x4D
OpcodeNames ==
    <<"POP", "RET", "BR_TRUE", "BR_FALSE", "BRANCH", "LD_U64", "LD_CONST",
      "LD_TRUE", "LD_FALSE", "COPY_LOC", "MOVE_LOC", "ST_LOC",
      "MUT_BORROW_LOC", "IMM_BORROW_LOC", "MUT_BORROW_FIELD",
      "IMM_BORROW_FIELD", "CALL", "PACK", "UNPACK", "READ_REF", "WRITE_REF",
      "ADD", "SUB", "MUL", "MOD", "DIV", "BIT_OR", "BIT_AND", "XOR", "OR",
      "AND", "NOT", "EQ", "NEQ", "LT", "GT", "LE", "GE", "ABORT", "NOP",
      "EXISTS", "MUT_BORROW_GLOBAL", "IMM_BORROW_GLOBAL", "MOVE_FROM",
      "MOVE_TO", "FREEZE_REF", "SHL", "SHR", "LD_U8", "LD_U128", "CAST_U8",
      "CAST_U64", "CAST_U128", "MUT_BORROW_FIELD_GENERIC",
      "IMM_BORROW_FIELD_GENERIC", "CALL_GENERIC", "PACK_GENERIC",
      "UNPACK_GENERIC", "EXISTS_GENERIC", "MUT_BORROW_GLOBAL_GENERIC",
      "IMM_BORROW_GLOBAL_GENERIC", "MOVE_FROM_GENERIC", "MOVE_TO_GENERIC",
      "VEC_PACK", "VEC_LEN", "VEC_IMM_BORROW", "VEC_MUT_BORROW",
      "VEC_PUSH_BACK", "VEC_POP_BACK", "VEC_UNPACK", "VEC_SWAP", "LD_U16",
      "LD_U32", "LD_U256", "CAST_U16", "CAST_U32", "CAST_U256">>

\* A variant of Opcodes::from_u8 that takes the byte 0 as NOP.
Opcodes_from_u8_zero_is_nop(value) ==
    IF value \in 1 .. Len(OpcodeNames) THEN Ok(OpcodeNames[value], 0)
    ELSE IF value = 0 THEN Ok("NOP", 0)
    ELSE Err("UNKNOWN_OPCODE", "", 0)

\* Opcodes::from_u8
Opcodes_from_u8(value) ==
    IF value \in 1 .. Len(OpcodeNames) THEN Ok(OpcodeNames[value], 0)
    ELSE Err("UNKNOWN_OPCODE", "", 0)

\* read_u16_internal .. read_u256_internal: n bytes, kept in the order read
\* (the integer's little-endian digits), or the BAD_U* status
read_fixed_internal(bytes, pos, n, status) ==
    IF read_exact(bytes, pos, n).ok THEN read_exact(bytes, pos, n)
    ELSE Err(status, "", read_exact(bytes, pos, n).pos)

\* A variant of read_u64_internal that reports a short read as MALFORMED.
read_u64_internal_malformed(bytes, pos) ==
    read_fixed_internal(bytes, pos, 8, "MALFORMED")

read_u16_internal(bytes, pos) == read_fixed_internal(bytes, pos, 2, "BAD_U16")
read_u32_internal(bytes, pos) == read_fixed_internal(bytes, pos, 4, "BAD_U32")
read_u64_internal(bytes, pos) == read_fixed_internal(bytes, pos, 8, "BAD_U64")
read_u128_internal(bytes, pos) == read_fixed_internal(bytes, pos, 16, "BAD_U128")
read_u256_internal(bytes, pos) == read_fixed_internal(bytes, pos, 32, "BAD_U256")

load_signature_index(bytes, pos) ==
    read_uleb_internal(bytes, pos, SIGNATURE_INDEX_MAX, U16_MAX)
load_module_handle_index(bytes, pos) ==
    read_uleb_internal(bytes, pos, MODULE_HANDLE_INDEX_MAX, U16_MAX)
load_identifier_index(bytes, pos) ==
    read_uleb_internal(bytes, pos, IDENTIFIER_INDEX_MAX, U16_MAX)
load_address_identifier_index(bytes, pos) ==
    read_uleb_internal(bytes, pos, ADDRESS_INDEX_MAX, U16_MAX)
load_struct_def_index(bytes, pos) ==
    read_uleb_internal(bytes, pos, STRUCT_DEF_INDEX_MAX, U16_MAX)
load_function_handle_index(bytes, pos) ==
    read_uleb_internal(bytes, pos, FUNCTION_HANDLE_INDEX_MAX, U16_MAX)
load_field_handle_index(bytes, pos) ==
    read_uleb_internal(bytes, pos, FIELD_HANDLE_INDEX_MAX, U16_MAX)
load_field_inst_index(bytes, pos) ==
    read_uleb_internal(bytes, pos, FIELD_INST_INDEX_MAX, U16_MAX)
load_function_inst_index(bytes, pos) ==
    read_uleb_internal(bytes, pos, FUNCTION_INST_INDEX_MAX, U16_MAX)
load_struct_def_inst_index(bytes, pos) ==
    read_uleb_internal(bytes, pos, STRUCT_DEF_INST_INDEX_MAX, U16_MAX)
load_constant_pool_index(bytes, pos) ==
    read_uleb_internal(bytes, pos, CONSTANT_INDEX_MAX, U16_MAX)
load_bytecode_count(bytes, pos) ==
    read_uleb_internal(bytes, pos, BYTECODE_COUNT_MAX, U64_MAX)
load_bytecode_index(bytes, pos) ==
    read_uleb_internal(bytes, pos, BYTECODE_INDEX_MAX, U16_MAX)
load_local_index(bytes, pos) ==
    read_uleb_internal(bytes, pos, LOCAL_INDEX_MAX, U8_MAX)

\* Bytecode: the variant (named as its opcode), its index operand and its
\* immediate operand (little-endian bytes)
Bytecode(opcode, idx, imm) == [op |-> opcode, idx |-> idx, imm |-> imm]

VectorOpcodes ==
    {"VEC_PACK", "VEC_LEN", "VEC_IMM_BORROW", "VEC_MUT_BORROW",
     "VEC_PUSH_BACK", "VEC_POP_BACK", "VEC_UNPACK", "VEC_SWAP"}

IntegerOpcodes ==
    {"LD_U16", "LD_U32", "LD_U256", "CAST_U16", "CAST_U32", "CAST_U256"}

VectorUnavailable == "Vector operations not available before bytecode version 4"

IntegersUnavailable ==
    "Loading or casting u16, u32, u256 integers not supported in bytecode version"

\* the version check with the vector gate one version too low
version_check_vectors_from_3(opcode, ver, pos) ==
    IF opcode \in VectorOpcodes /\ ver < VERSION_3
    THEN Err("MALFORMED", VectorUnavailable, pos)
    ELSE IF opcode \in IntegerOpcodes /\ ver < VERSION_6
    THEN Err("MALFORMED", IntegersUnavailable, pos)
    ELSE Ok(opcode, pos)

\* // version checking: the two matches on the opcode
version_check(opcode, ver, pos) ==
    IF opcode \in VectorOpcodes /\ ver < VERSION_4
    THEN Err("MALFORMED", VectorUnavailable, pos)
    ELSE IF opcode \in IntegerOpcodes /\ ver < VERSION_6
    THEN Err("MALFORMED", IntegersUnavailable, pos)
    ELSE Ok(opcode, pos)

\* a Bytecode with an index operand, from the result of its loader
with_index(opcode, idx) ==
    IF idx.ok THEN Ok(Bytecode(opcode, idx.val, <<>>), idx.pos) ELSE idx

\* a Bytecode with an immediate operand, from the result of its reader
with_immediate(opcode, value) ==
    IF value.ok THEN Ok(Bytecode(opcode, 0, value.val), value.pos) ELSE value

\* a Bytecode with an index and a u64, read in that order
with_index_and_u64(opcode, bytes, idx) ==
    IF ~idx.ok THEN idx
    ELSE IF ~read_u64_internal(bytes, idx.pos).ok
    THEN read_u64_internal(bytes, idx.pos)
    ELSE Ok(Bytecode(opcode, idx.val, read_u64_internal(bytes, idx.pos).val),
            read_u64_internal(bytes, idx.pos).pos)

\* LD_U8's cursor.read_u8().map_err(..)
read_u8_operand(byte) ==
    IF byte.ok THEN Ok(<<byte.val>>, byte.pos)
    ELSE Err("MALFORMED", "Unexpected EOF", byte.pos)

\* // conversion: the Bytecode of an opcode, with the operands after it
conversion(opcode, bytes, pos) ==
    CASE opcode \in {"BR_TRUE", "BR_FALSE", "BRANCH"} ->
            with_index(opcode, load_bytecode_index(bytes, pos))
      [] opcode = "LD_U8" ->
            with_immediate(opcode, read_u8_operand(read_u8(bytes, pos)))
      [] opcode = "LD_U16" -> with_immediate(opcode, read_u16_internal(bytes, pos))
      [] opcode = "LD_U32" -> with_immediate(opcode, read_u32_internal(bytes, pos))
      [] opcode = "LD_U64" -> with_immediate(opcode, read_u64_internal(bytes, pos))
      [] opcode = "LD_U128" -> with_immediate(opcode, read_u128_internal(bytes, pos))
      [] opcode = "LD_U256" -> with_immediate(opcode, read_u256_internal(bytes, pos))
      [] opcode = "LD_CONST" ->
            with_index(opcode, load_constant_pool_index(bytes, pos))
      [] opcode \in {"COPY_LOC", "MOVE_LOC", "ST_LOC", "MUT_BORROW_LOC",
                     "IMM_BORROW_LOC"} ->
            with_index(opcode, load_local_index(bytes, pos))
      [] opcode \in {"MUT_BORROW_FIELD", "IMM_BORROW_FIELD"} ->
            with_index(opcode, load_field_handle_index(bytes, pos))
      [] opcode \in {"MUT_BORROW_FIELD_GENERIC", "IMM_BORROW_FIELD_GENERIC"} ->
            with_index(opcode, load_field_inst_index(bytes, pos))
      [] opcode = "CALL" ->
            with_index(opcode, load_function_handle_index(bytes, pos))
      [] opcode = "CALL_GENERIC" ->
            with_index(opcode, load_function_inst_index(bytes, pos))
      [] opcode \in {"PACK", "UNPACK", "EXISTS", "MUT_BORROW_GLOBAL",
                     "IMM_BORROW_GLOBAL", "MOVE_FROM", "MOVE_TO"} ->
            with_index(opcode, load_struct_def_index(bytes, pos))
      [] opcode \in {"PACK_GENERIC", "UNPACK_GENERIC", "EXISTS_GENERIC",
                     "MUT_BORROW_GLOBAL_GENERIC", "IMM_BORROW_GLOBAL_GENERIC",
                     "MOVE_FROM_GENERIC", "MOVE_TO_GENERIC"} ->
            with_index(opcode, load_struct_def_inst_index(bytes, pos))
      [] opcode \in {"VEC_PACK", "VEC_UNPACK"} ->
            with_index_and_u64(opcode, bytes, load_signature_index(bytes, pos))
      [] opcode \in {"VEC_LEN", "VEC_IMM_BORROW", "VEC_MUT_BORROW",
                     "VEC_PUSH_BACK", "VEC_POP_BACK", "VEC_SWAP"} ->
            with_index(opcode, load_signature_index(bytes, pos))
      [] OTHER -> Ok(Bytecode(opcode, 0, <<>>), pos)

\* the version check, then the conversion
check_and_convert(checked, bytes) ==
    IF checked.ok THEN conversion(checked.val, bytes, checked.pos) ELSE checked

\* Opcodes::from_u8(byte)?, then the rest of the loop body
decode_opcode(byte, bytes, ver) ==
    IF ~byte.ok THEN Err("MALFORMED", "Unexpected EOF", byte.pos)
    ELSE IF ~Opcodes_from_u8(byte.val).ok
    THEN Err("UNKNOWN_OPCODE", "", byte.pos)
    ELSE check_and_convert(
            version_check(Opcodes_from_u8(byte.val).val, ver, byte.pos), bytes)

\* the body of the while loop: the next Bytecode
load_instruction(bytes, pos, ver) == decode_opcode(read_u8(bytes, pos), bytes, ver)

\* The outcome of a piece of load_code: done with the result res (the code
\* on Ok), or the code so far and the cursor position to go on with.
CodeDone(res) == [done |-> TRUE, res |-> res, code |-> <<>>, pos |-> res.pos]

CodeMore(code_, pos) ==
    [done |-> FALSE, res |-> NoResult, code |-> code_, pos |-> pos]

\* code.push(bytecode)
push_bytecode(code_, bytecode) ==
    IF bytecode.ok THEN CodeMore(Append(code_, bytecode.val), bytecode.pos)
    ELSE CodeDone(bytecode)

\* A variant of code_iteration that reads one instruction more than the count.
code_iteration_one_more(bytes, pos, ver, code_, count) ==
    IF Len(code_) <= count
    THEN push_bytecode(code_, load_instruction(bytes, pos, ver))
    ELSE CodeDone(Ok(code_, pos))

\* while code.len() < bytecode_count { .. } Ok(())
code_iteration(bytes, pos, ver, code_, count) ==
    IF Len(code_) < count
    THEN push_bytecode(code_, load_instruction(bytes, pos, ver))
    ELSE CodeDone(Ok(code_, pos))

RECURSIVE code_loop(_, _, _, _, _)
code_continue(bytes, ver, count, s) ==
    IF s.done THEN s.res ELSE code_loop(bytes, s.pos, ver, s.code, count)

code_loop(bytes, pos, ver, code_, count) ==
    code_continue(bytes, ver, count, code_iteration(bytes, pos, ver, code_, count))

\* the loop, entered with the count that was read
enter_code_loop(bytes, ver, code_, count) ==
    IF count.ok THEN code_loop(bytes, count.pos, ver, code_, count.val)
    ELSE count

\* load_code: Ok with the code vector and the position after it
load_code(bytes, pos, ver, code_) ==
    enter_code_loop(bytes, ver, code_, load_bytecode_count(bytes, pos))

\* load_code, step by step, on the stream in binary
CodeEntries == {"code"}

\* let bytecode_count = load_bytecode_count(cursor)?
CodeCount(count) ==
    /\ cursor' = count.pos
    /\ IF count.ok
       THEN /\ pc' = "code_loop"
            /\ bytecode_count' = count.val
            /\ UNCHANGED result
       ELSE /\ pc' = "done"
            /\ result' = TopErr(count, "load_bytecode_count")
            /\ UNCHANGED bytecode_count
    /\ UNCHANGED <<binary, entry, vm_state, prev_state, storage, gas, version, tables, content_len,
                   table_contents, unit, stack,
                   code>>

CodeStart ==
    /\ pc = "start"
    /\ entry \in CodeEntries
    /\ \E r \in {load_bytecode_count(binary, cursor)} : CodeCount(r)

CodeOutcome(s) ==
    /\ cursor' = s.pos
    /\ IF s.done
       THEN /\ pc' = "done"
            /\ result' = IF s.res.ok THEN TopOk(<<>>, "load_code")
                         ELSE TopErr(s.res, "load_code")
            /\ UNCHANGED code
       ELSE /\ pc' = "code_loop"
            /\ code' = s.code
            /\ UNCHANGED result
    /\ UNCHANGED <<binary, entry, vm_state, prev_state, storage, gas, version, tables, content_len,
                   table_contents, unit, stack,
                   bytecode_count>>

CodeIteration ==
    /\ pc = "code_loop"
    /\ entry \in CodeEntries
    /\ \E s \in {code_iteration(binary, cursor, version, code, bytecode_count)} :
           CodeOutcome(s)

-----------------------------------------------------------------------------
(* SpecCode: load_code on code streams *)

MaxInstructions == 2
MaxOperandBytes == 2

\* every opcode byte, and the bytes 0x00 and 0x4E that are none
OpcodeBytes == 0 .. Len(OpcodeNames) + 1

\* POP or the operand 1, VEC_LEN, and a ULEB128 continuation byte
OperandBytes == {1, 65, 128}

\* the opcodes with a fixed-width operand, with 32 bytes after them
FixedWidthStreams ==
    {<<1, op>> \o Zeros(32) : op \in {6, 50, 64, 70, 72, 73, 74}}

\* the bytes above the opcodes, as the first or the second instruction
UnknownOpcodeStreams ==
    {<<n, op>> \o rest : n \in 1 .. MaxInstructions,
                         op \in Len(OpcodeNames) + 2 .. 255,
                         rest \in {<<>>, <<1>>}}
        \cup {<<2, 1, op>> : op \in Len(OpcodeNames) + 2 .. 255}

CodeStreams ==
    {<<n, op>> \o rest : n \in 0 .. MaxInstructions, op \in OpcodeBytes,
                         rest \in SeqsUpTo(OperandBytes, MaxOperandBytes)}
        \cup {<<n>> : n \in 0 .. MaxInstructions}
        \cup {<<>>, <<128>>}
        \cup FixedWidthStreams
        \cup UnknownOpcodeStreams
        \cup {EncodeUleb(BYTECODE_COUNT_MAX + 1) \o <<1>>,
              EncodeUleb(BYTECODE_COUNT_MAX) \o <<1>>}

InitCode ==
    /\ entry = "code"
    /\ pc = "start"
    /\ binary \in CodeStreams
    /\ cursor = 0
    /\ version \in Versions
    /\ Idle

NextCode == CodeStart \/ CodeIteration

SpecCode == InitCode /\ [][NextCode]_vars

-----------------------------------------------------------------------------
(* Claim C9: the version gates of load_code *)

\* load_code is about to read the opcode byte at the cursor
ReadsOpcode ==
    /\ entry \in CodeEntries
    /\ pc = "code_loop"
    /\ Len(code) < bytecode_count
    /\ cursor < Len(binary)

\* the byte at the cursor is one of the opcodes
OpcodeAhead(opcodes) ==
    /\ Opcodes_from_u8(binary[cursor + 1]).ok
    /\ Opcodes_from_u8(binary[cursor + 1]).val \in opcodes

\* load_code returns MALFORMED with the message msg, the cursor just after
\* the opcode byte and no instruction added
GateRejected(msg) ==
    /\ pc' = "done"
    /\ ~result'.ok
    /\ result'.status = "MALFORMED"
    /\ result'.msg = msg
    /\ cursor' = cursor + 1
    /\ code' = code

\* C9: in load_code a vector-family opcode (VEC_PACK, VEC_LEN,
\* VEC_IMM_BORROW, VEC_MUT_BORROW, VEC_PUSH_BACK, VEC_POP_BACK, VEC_UNPACK,
\* VEC_SWAP) is rejected with MALFORMED when the version is below 4, and
\* LD_U16, LD_U32, LD_U256, CAST_U16, CAST_U32, CAST_U256 are rejected with
\* MALFORMED when the version is below 6, with no operand byte read: the
\* cursor is left just after the opcode byte.
C9_OpcodeGates ==
    [][ ReadsOpcode =>
          /\ (OpcodeAhead(VectorOpcodes) /\ version < VERSION_4) =>
                GateRejected(VectorUnavailable)
          /\ (OpcodeAhead(IntegerOpcodes) /\ version < VERSION_6) =>
                GateRejected(IntegersUnavailable)
      ]_vars

\* opcode 0x41 (VEC_LEN) at version 3, its operand present, rejected
C9_Witness ==
    /\ entry \in CodeEntries
    /\ pc = "done"
    /\ version = VERSION_3
    /\ cursor < Len(binary)
    /\ binary[cursor] = 65
    /\ result.status = "MALFORMED"
    /\ result.msg = VectorUnavailable


-----------------------------------------------------------------------------
(* The loaders of the tables and of the trailers *)

\* let v = r?; then(v, position after v)
Try(r, then(_, _)) ==
    CHOOSE out \in {IF x.ok THEN then(x.val, x.pos) ELSE x : x \in {r}} : TRUE

\* r.map_err(|_| PartialVMError::new(status).with_message(msg))
map_err(r, status, msg) ==
    CHOOSE out \in {IF x.ok THEN x ELSE Err(status, msg, x.pos) : x \in {r}} : TRUE

\* the bit of a flag byte, and the byte with that bit cleared (flags ^= bit)
HasBit(flags, bit) == (flags \div bit) % 2 = 1
ClearBit(flags, bit) == IF HasBit(flags, bit) THEN flags - bit ELSE flags

\* Ability as bits of an AbilitySet
Ability_Copy == 1
Ability_Drop == 2
Ability_Store == 4
Ability_Key == 8
AbilitySet_EMPTY == 0
AbilitySet_ALL == 15

\* set | ability
WithAbility(set, ability) == IF HasBit(set, ability) THEN set ELSE set + ability

\* AbilitySet::from_u8: the sets within AbilitySet::ALL
AbilitySet_from_u8(u) ==
    IF u <= AbilitySet_ALL THEN Ok(u, 0) ELSE Err("UNKNOWN_ABILITY", "", 0)

\* DeprecatedNominalResourceFlag::from_u8, as the ability set it stands for
DeprecatedNominalResourceFlag_from_u8(value) ==
    CASE value = 1 -> Ok(Ability_Store + Ability_Key, 0)
      [] value = 2 -> Ok(Ability_Store + Ability_Copy + Ability_Drop, 0)
      [] OTHER -> Err("UNKNOWN_ABILITY", "", 0)

\* DeprecatedKind::from_u8, as the ability set it stands for
DeprecatedKind_from_u8(value) ==
    CASE value = 1 -> Ok(AbilitySet_EMPTY, 0)
      [] value = 2 -> Ok(Ability_Copy + Ability_Drop, 0)
      [] value = 3 -> Ok(Ability_Key, 0)
      [] OTHER -> Err("UNKNOWN_ABILITY", "", 0)

\* A variant of load_deprecated_kind that adds Store at every position.
load_deprecated_kind_store_everywhere(byte, pos, position) ==
    IF position = "StructHandle"
    THEN Try(DeprecatedNominalResourceFlag_from_u8(byte),
             LAMBDA set, p : Ok(set, pos))
    ELSE Try(DeprecatedKind_from_u8(byte),
             LAMBDA set, p : Ok(WithAbility(set, Ability_Store), pos))

\* load_ability_set before version 2: one byte of the old kind system, at a
\* position of AbilitySetPosition
load_deprecated_kind(byte, pos, position) ==
    IF position = "StructHandle"
    THEN Try(DeprecatedNominalResourceFlag_from_u8(byte),
             LAMBDA set, p : Ok(set, pos))
    ELSE Try(DeprecatedKind_from_u8(byte),
             LAMBDA set, p :
                IF position = "FunctionTypeParameters"
                THEN Ok(WithAbility(set, Ability_Store), pos)
                ELSE Ok(set, pos))

\* A variant of load_ability_set that bounds the value by its type only.
load_ability_set_unbounded(bytes, pos, ver, position) ==
    IF ver < 2
    THEN Try(map_err(read_u8(bytes, pos), "MALFORMED", "Unexpected EOF"),
             LAMBDA byte, p : load_deprecated_kind(byte, p, position))
    ELSE Try(read_uleb_internal(bytes, pos, U8_MAX, U8_MAX),
             LAMBDA u, p : Try(AbilitySet_from_u8(u),
                               LAMBDA abilities, q : Ok(abilities, p)))

\* load_ability_set
load_ability_set(bytes, pos, ver, position) ==
    IF ver < 2
    THEN Try(map_err(read_u8(bytes, pos), "MALFORMED", "Unexpected EOF"),
             LAMBDA byte, p : load_deprecated_kind(byte, p, position))
    ELSE Try(read_uleb_internal(bytes, pos, AbilitySet_ALL, U8_MAX),
             LAMBDA u, p : Try(AbilitySet_from_u8(u),
                               LAMBDA abilities, q : Ok(abilities, p)))

\* A variant of load_struct_type_parameter that reads the phantom flag from
\* VERSION_2 on.
load_struct_type_parameter_phantom_from_2(bytes, pos, ver) ==
    Try(load_ability_set(bytes, pos, ver, "StructTypeParameters"),
        LAMBDA constraints, p :
            IF ver < VERSION_2
            THEN Ok([constraints |-> constraints, is_phantom |-> FALSE], p)
            ELSE Try(read_uleb_internal(bytes, p, 1, U8_MAX),
                     LAMBDA byte, q :
                        Ok([constraints |-> constraints,
                            is_phantom |-> byte # 0], q)))

\* load_struct_type_parameter
load_struct_type_parameter(bytes, pos, ver) ==
    Try(load_ability_set(bytes, pos, ver, "StructTypeParameters"),
        LAMBDA constraints, p :
            IF ver < VERSION_3
            THEN Ok([constraints |-> constraints, is_phantom |-> FALSE], p)
            ELSE Try(read_uleb_internal(bytes, p, 1, U8_MAX),
                     LAMBDA byte, q :
                        Ok([constraints |-> constraints,
                            is_phantom |-> byte # 0], q)))

load_acquires_count(bytes, pos) ==
    read_uleb_internal(bytes, pos, ACQUIRES_COUNT_MAX, U64_MAX)
load_field_count(bytes, pos) ==
    read_uleb_internal(bytes, pos, FIELD_COUNT_MAX, U64_MAX)
load_signature_size(bytes, pos) ==
    read_uleb_internal(bytes, pos, SIGNATURE_SIZE_MAX, U64_MAX)
load_constant_size(bytes, pos) ==
    read_uleb_internal(bytes, pos, CONSTANT_SIZE_MAX, U64_MAX)
load_metadata_key_size(bytes, pos) ==
    read_uleb_internal(bytes, pos, METADATA_KEY_SIZE_MAX, U64_MAX)
load_metadata_value_size(bytes, pos) ==
    read_uleb_internal(bytes, pos, METADATA_VALUE_SIZE_MAX, U64_MAX)
load_identifier_size(bytes, pos) ==
    read_uleb_internal(bytes, pos, IDENTIFIER_SIZE_MAX, U64_MAX)
load_field_offset(bytes, pos) ==
    read_uleb_internal(bytes, pos, FIELD_OFFSET_MAX, U16_MAX)

\* load_byte_blob: size bytes after the size, all of them
load_byte_blob(bytes, pos, size) ==
    Try(size,
        LAMBDA n, p :
            Try(read(bytes, p, n),
                LAMBDA data, q :
                    IF Len(data) # n
                    THEN Err("MALFORMED", "Bad byte blob size", q)
                    ELSE Ok(data, q)))

\* load_metadata_entry
load_metadata_entry(bytes, pos) ==
    Try(load_byte_blob(bytes, pos, load_metadata_key_size(bytes, pos)),
        LAMBDA key, p :
            Try(load_byte_blob(bytes, p, load_metadata_value_size(bytes, p)),
                LAMBDA value, q : Ok([key |-> key, value |-> value], q)))

\* load_constant
load_constant(bytes, pos, ver) ==
    Try(load_signature_token(bytes, pos, ver),
        LAMBDA type_, p :
            Try(load_byte_blob(bytes, p, load_constant_size(bytes, p)),
                LAMBDA data, q : Ok([type_ |-> type_, data |-> data], q)))
\* Identifier::from_utf8: ASCII letters, digits and '_', not starting with a
\* digit, and not "_" alone
IdentifierStart == (65 .. 90) \cup (97 .. 122) \cup {95}
IdentifierRest == IdentifierStart \cup (48 .. 57)

Identifier_from_utf8(buffer) ==
    /\ buffer # <<>>
    /\ buffer[1] \in IdentifierStart
    /\ \A i \in 2 .. Len(buffer) : buffer[i] \in IdentifierRest
    /\ buffer # <<95>>

\* the body of load_identifiers' loop
load_identifier(bytes, pos) ==
    Try(load_identifier_size(bytes, pos),
        LAMBDA size, p :
            Try(read(bytes, p, size),
                LAMBDA buffer, q :
                    IF Len(buffer) # size
                    THEN Err("MALFORMED", "Bad Identifier pool size", q)
                    ELSE IF ~Identifier_from_utf8(buffer)
                    THEN Err("MALFORMED", "Invalid Identifier", q)
                    ELSE Ok(buffer, q)))

\* Visibility::try_from(u8), and the old script visibility
Visibility_Private == 0
Visibility_Public == 1
Visibility_Friend == 3
Visibility_DEPRECATED_SCRIPT == 2

\* A variant of Visibility_try_from that takes the script visibility byte as
\* Public.
Visibility_try_from_with_script(flags, pos) ==
    CASE flags = Visibility_Private -> Ok("Private", pos)
      [] flags = Visibility_Public -> Ok("Public", pos)
      [] flags = Visibility_Friend -> Ok("Friend", pos)
      [] flags = Visibility_DEPRECATED_SCRIPT -> Ok("Public", pos)
      [] OTHER -> Err("MALFORMED", "Invalid visibility byte", pos)

\* Visibility::try_from(u8)
Visibility_try_from(flags, pos) ==
    CASE flags = Visibility_Private -> Ok("Private", pos)
      [] flags = Visibility_Public -> Ok("Public", pos)
      [] flags = Visibility_Friend -> Ok("Friend", pos)
      [] OTHER -> Err("MALFORMED", "Invalid visibility byte", pos)

\* the bits of FunctionDefinition's flag bytes
FunctionDefinition_DEPRECATED_PUBLIC_BIT == 1
FunctionDefinition_NATIVE == 1
FunctionDefinition_ENTRY == 2

\* (visibility, is_entry, extra_flags)
FunctionFlags(visibility, is_entry, extra_flags) ==
    [visibility |-> visibility, is_entry |-> is_entry,
     extra_flags |-> extra_flags]

\* A variant of load_function_flags that takes the ENTRY bit from VERSION_4 on.
load_function_flags_entry_from_4(flags, bytes, pos, ver) ==
    IF ver = VERSION_1
    THEN IF HasBit(flags, FunctionDefinition_DEPRECATED_PUBLIC_BIT)
         THEN Ok(FunctionFlags("Public", FALSE,
                    ClearBit(flags, FunctionDefinition_DEPRECATED_PUBLIC_BIT)), pos)
         ELSE Ok(FunctionFlags("Private", FALSE, flags), pos)
    ELSE IF ver < VERSION_4
    THEN IF flags = Visibility_DEPRECATED_SCRIPT
         THEN Try(map_err(read_u8(bytes, pos), "MALFORMED", "Unexpected EOF"),
                  LAMBDA extra_flags, p :
                     Ok(FunctionFlags("Public", TRUE, extra_flags), p))
         ELSE Try(Visibility_try_from(flags, pos),
                  LAMBDA vis, p :
                     Try(map_err(read_u8(bytes, p), "MALFORMED", "Unexpected EOF"),
                         LAMBDA extra_flags, q :
                            Ok(FunctionFlags(vis, FALSE, extra_flags), q)))
    ELSE Try(Visibility_try_from(flags, pos),
             LAMBDA vis, p :
                Try(map_err(read_u8(bytes, p), "MALFORMED", "Unexpected EOF"),
                    LAMBDA extra_flags, q :
                       Ok(FunctionFlags(vis,
                             HasBit(extra_flags, FunctionDefinition_ENTRY),
                             ClearBit(extra_flags, FunctionDefinition_ENTRY)), q)))

\* the flags of a function definition, from its first flag byte
load_function_flags(flags, bytes, pos, ver) ==
    IF ver = VERSION_1
    THEN IF HasBit(flags, FunctionDefinition_DEPRECATED_PUBLIC_BIT)
         THEN Ok(FunctionFlags("Public", FALSE,
                    ClearBit(flags, FunctionDefinition_DEPRECATED_PUBLIC_BIT)), pos)
         ELSE Ok(FunctionFlags("Private", FALSE, flags), pos)
    ELSE IF ver < VERSION_5
    THEN IF flags = Visibility_DEPRECATED_SCRIPT
         THEN Try(map_err(read_u8(bytes, pos), "MALFORMED", "Unexpected EOF"),
                  LAMBDA extra_flags, p :
                     Ok(FunctionFlags("Public", TRUE, extra_flags), p))
         ELSE Try(Visibility_try_from(flags, pos),
                  LAMBDA vis, p :
                     Try(map_err(read_u8(bytes, p), "MALFORMED", "Unexpected EOF"),
                         LAMBDA extra_flags, q :
                            Ok(FunctionFlags(vis, FALSE, extra_flags), q)))
    ELSE Try(Visibility_try_from(flags, pos),
             LAMBDA vis, p :
                Try(map_err(read_u8(bytes, p), "MALFORMED", "Unexpected EOF"),
                    LAMBDA extra_flags, q :
                       Ok(FunctionFlags(vis,
                             HasBit(extra_flags, FunctionDefinition_ENTRY),
                             ClearBit(extra_flags, FunctionDefinition_ENTRY)), q)))

\* load_code_unit; no code unit is <<>>, a code unit is a sequence of one
load_code_unit(bytes, pos, ver) ==
    Try(load_signature_index(bytes, pos),
        LAMBDA locals, p :
            Try(load_code(bytes, p, ver, <<>>),
                LAMBDA code_, q : Ok([locals |-> locals, code |-> code_], q)))

\* vectors of items and tables of items, by the kind of item
RECURSIVE load_vec(_, _, _, _, _, _)
RECURSIVE load_item(_, _, _, _)

\* load_ability_sets
load_ability_sets(bytes, pos, ver, position) ==
    Try(load_type_parameter_count(bytes, pos),
        LAMBDA len, p :
            load_vec("AbilitySet:" \o position, len, bytes, p, ver, <<>>))

\* load_struct_type_parameters
load_struct_type_parameters(bytes, pos, ver) ==
    Try(load_type_parameter_count(bytes, pos),
        LAMBDA len, p : load_vec("StructTypeParameter", len, bytes, p, ver, <<>>))

\* load_signature_tokens
load_signature_tokens(bytes, pos, ver) ==
    Try(load_signature_size(bytes, pos),
        LAMBDA len, p : load_vec("SignatureToken", len, bytes, p, ver, <<>>))

\* load_field_defs
load_field_defs(bytes, pos, ver) ==
    Try(load_field_count(bytes, pos),
        LAMBDA field_count, p :
            load_vec("FieldDefinition", field_count, bytes, p, ver, <<>>))

\* load_struct_definition_indices
load_struct_definition_indices(bytes, pos, ver) ==
    Try(load_acquires_count(bytes, pos),
        LAMBDA len, p :
            load_vec("StructDefinitionIndex", len, bytes, p, ver, <<>>))

\* load_field_def
load_field_def(bytes, pos, ver) ==
    Try(load_identifier_index(bytes, pos),
        LAMBDA name, p :
            Try(load_signature_token(bytes, p, ver),
                LAMBDA signature, q :
                    Ok([name |-> name, signature |-> signature], q)))
\* the body of load_module_handles' loop
load_module_handle(bytes, pos) ==
    Try(load_address_identifier_index(bytes, pos),
        LAMBDA address, p :
            Try(load_identifier_index(bytes, p),
                LAMBDA name, q : Ok([address |-> address, name |-> name], q)))

\* the body of load_struct_handles' loop
load_struct_handle(bytes, pos, ver) ==
    Try(load_module_handle_index(bytes, pos),
        LAMBDA module, p1 :
    Try(load_identifier_index(bytes, p1),
        LAMBDA name, p2 :
    Try(load_ability_set(bytes, p2, ver, "StructHandle"),
        LAMBDA abilities, p3 :
    Try(load_struct_type_parameters(bytes, p3, ver),
        LAMBDA type_parameters, p4 :
            Ok([module |-> module, name |-> name, abilities |-> abilities,
                type_parameters |-> type_parameters], p4)))))

\* the body of load_function_handles' loop
load_function_handle(bytes, pos, ver) ==
    Try(load_module_handle_index(bytes, pos),
        LAMBDA module, p1 :
    Try(load_identifier_index(bytes, p1),
        LAMBDA name, p2 :
    Try(load_signature_index(bytes, p2),
        LAMBDA parameters, p3 :
    Try(load_signature_index(bytes, p3),
        LAMBDA return_, p4 :
    Try(load_ability_sets(bytes, p4, ver, "FunctionTypeParameters"),
        LAMBDA type_parameters, p5 :
            Ok([module |-> module, name |-> name, parameters |-> parameters,
                return_ |-> return_, type_parameters |-> type_parameters],
               p5))))))

\* the body of load_struct_instantiations' loop
load_struct_instantiation(bytes, pos) ==
    Try(load_struct_def_index(bytes, pos),
        LAMBDA def, p :
            Try(load_signature_index(bytes, p),
                LAMBDA type_parameters, q :
                    Ok([def |-> def, type_parameters |-> type_parameters], q)))

\* the body of load_function_instantiations' loop
load_function_instantiation(bytes, pos) ==
    Try(load_function_handle_index(bytes, pos),
        LAMBDA handle, p :
            Try(load_signature_index(bytes, p),
                LAMBDA type_parameters, q :
                    Ok([handle |-> handle,
                        type_parameters |-> type_parameters], q)))

\* SerializedNativeStructFlag::from_u8
SerializedNativeStructFlag_from_u8(value) ==
    CASE value = 1 -> Ok("NATIVE", 0)
      [] value = 2 -> Ok("DECLARED", 0)
      [] OTHER -> Err("UNKNOWN_NATIVE_STRUCT_FLAG", "", 0)

\* the field information of a struct definition, from its flag byte
load_field_information(byte, bytes, ver) ==
    IF ~byte.ok
    THEN Err("MALFORMED", "Invalid field info in struct", byte.pos)
    ELSE Try(SerializedNativeStructFlag_from_u8(byte.val),
             LAMBDA flag, p :
                IF flag = "NATIVE"
                THEN Ok([native |-> TRUE, fields |-> <<>>], byte.pos)
                ELSE Try(load_field_defs(bytes, byte.pos, ver),
                         LAMBDA fields, q :
                            Ok([native |-> FALSE, fields |-> fields], q)))

\* the body of load_struct_defs' loop
load_struct_def(bytes, pos, ver) ==
    Try(load_struct_handle_index(bytes, pos),
        LAMBDA struct_handle, p :
            Try(load_field_information(read_u8(bytes, p), bytes, ver),
                LAMBDA field_information, q :
                    Ok([struct_handle |-> struct_handle,
                        field_information |-> field_information], q)))

\* the body of load_field_handles' loop
load_field_handle(bytes, pos) ==
    Try(load_struct_def_index(bytes, pos),
        LAMBDA struct_idx, p :
            Try(load_field_offset(bytes, p),
                LAMBDA offset, q :
                    Ok([owner |-> struct_idx, field |-> offset], q)))

\* the body of load_field_instantiations' loop
load_field_instantiation(bytes, pos) ==
    Try(load_field_handle_index(bytes, pos),
        LAMBDA handle, p :
            Try(load_signature_index(bytes, p),
                LAMBDA type_parameters, q :
                    Ok([handle |-> handle,
                        type_parameters |-> type_parameters], q)))

\* A variant of load_function_body that leaves the flags of a native
\* function unchecked.
load_function_body_native_unchecked(function, flags, acquires, bytes, pos, ver) ==
    IF HasBit(flags.extra_flags, FunctionDefinition_NATIVE)
    THEN Ok([function |-> function, visibility |-> flags.visibility,
             is_entry |-> flags.is_entry,
             acquires_global_resources |-> acquires, code |-> <<>>], pos)
    ELSE Try(load_code_unit(bytes, pos, ver),
             LAMBDA code_unit, p :
                IF flags.extra_flags # 0
                THEN Err("INVALID_FLAG_BITS", "", p)
                ELSE Ok([function |-> function,
                         visibility |-> flags.visibility,
                         is_entry |-> flags.is_entry,
                         acquires_global_resources |-> acquires,
                         code |-> <<code_unit>>], p))

\* the code unit of a function definition, from its extra flags: none for
\* a native function; then the unused bits must not be set
load_function_body(function, flags, acquires, bytes, pos, ver) ==
    IF HasBit(flags.extra_flags, FunctionDefinition_NATIVE)
    THEN IF ClearBit(flags.extra_flags, FunctionDefinition_NATIVE) # 0
         THEN Err("INVALID_FLAG_BITS", "", pos)
         ELSE Ok([function |-> function, visibility |-> flags.visibility,
                  is_entry |-> flags.is_entry,
                  acquires_global_resources |-> acquires, code |-> <<>>], pos)
    ELSE Try(load_code_unit(bytes, pos, ver),
             LAMBDA code_unit, p :
                IF flags.extra_flags # 0
                THEN Err("INVALID_FLAG_BITS", "", p)
                ELSE Ok([function |-> function,
                         visibility |-> flags.visibility,
                         is_entry |-> flags.is_entry,
                         acquires_global_resources |-> acquires,
                         code |-> <<code_unit>>], p))

\* load_function_def
load_function_def(bytes, pos, ver) ==
    Try(load_function_handle_index(bytes, pos),
        LAMBDA function, p1 :
    Try(map_err(read_u8(bytes, p1), "MALFORMED", "Unexpected EOF"),
        LAMBDA flags, p2 :
    Try(load_function_flags(flags, bytes, p2, ver),
        LAMBDA function_flags, p3 :
    Try(load_struct_definition_indices(bytes, p3, ver),
        LAMBDA acquires_global_resources, p4 :
            load_function_body(function, function_flags,
                               acquires_global_resources, bytes, p4, ver)))))

\* one item of a vector or of a table
load_item(kind, bytes, pos, ver) ==
    CASE kind = "AbilitySet:FunctionTypeParameters" ->
            load_ability_set(bytes, pos, ver, "FunctionTypeParameters")
      [] kind = "AbilitySet:StructTypeParameters" ->
            load_ability_set(bytes, pos, ver, "StructTypeParameters")
      [] kind = "AbilitySet:StructHandle" ->
            load_ability_set(bytes, pos, ver, "StructHandle")
      [] kind = "StructTypeParameter" -> load_struct_type_parameter(bytes, pos, ver)
      [] kind = "SignatureToken" -> load_signature_token(bytes, pos, ver)
      [] kind = "FieldDefinition" -> load_field_def(bytes, pos, ver)
      [] kind = "StructDefinitionIndex" -> load_struct_def_index(bytes, pos)
      [] kind = "ModuleHandle" -> load_module_handle(bytes, pos)
      [] kind = "StructHandle" -> load_struct_handle(bytes, pos, ver)
      [] kind = "FunctionHandle" -> load_function_handle(bytes, pos, ver)
      [] kind = "StructDefInstantiation" -> load_struct_instantiation(bytes, pos)
      [] kind = "FunctionInstantiation" -> load_function_instantiation(bytes, pos)
      [] kind = "Identifier" -> load_identifier(bytes, pos)
      [] kind = "Constant" -> load_constant(bytes, pos, ver)
      [] kind = "Metadata" -> load_metadata_entry(bytes, pos)
      [] kind = "Signature" -> load_signature_tokens(bytes, pos, ver)
      [] kind = "StructDefinition" -> load_struct_def(bytes, pos, ver)
      [] kind = "FunctionDefinition" -> load_function_def(bytes, pos, ver)
      [] kind = "FieldHandle" -> load_field_handle(bytes, pos)
      [] kind = "FieldInstantiation" -> load_field_instantiation(bytes, pos)

\* for _ in 0..len { items.push(load_item(cursor)?) }
load_vec(kind, len, bytes, pos, ver, items) ==
    IF Len(items) < len
    THEN Try(load_item(kind, bytes, pos, ver),
             LAMBDA item, p :
                load_vec(kind, len, bytes, p, ver, Append(items, item)))
    ELSE Ok(items, pos)

\* the exit test of a table's loop: the field handles and instantiations
\* are read until the cursor is at the end of the table
\* (loop { if cursor.position() == table.count { break; } .. }), the
\* others while it is before the end
\* (while cursor.position() < table.count { .. })
table_is_read(kind, position, count) ==
    IF kind \in {"FieldHandle", "FieldInstantiation"}
    THEN position = count
    ELSE ~(position < count)

\* A variant of load_items that takes a record that does not decode as the
\* end of the table.
RECURSIVE load_items_cut_ignored(_, _, _, _, _)
load_items_cut_ignored(kind, bytes, pos, ver, items) ==
    IF table_is_read(kind, pos, Len(bytes)) THEN Ok(items, pos)
    ELSE IF ~load_item(kind, bytes, pos, ver).ok THEN Ok(items, pos)
    ELSE load_items_cut_ignored(kind, bytes,
            load_item(kind, bytes, pos, ver).pos, ver,
            Append(items, load_item(kind, bytes, pos, ver).val))

\* the loop of a table's loader, with the cursor of
\* binary.new_cursor(start, end) on bytes
RECURSIVE load_items(_, _, _, _, _)
load_items(kind, bytes, pos, ver, items) ==
    IF table_is_read(kind, pos, Len(bytes)) THEN Ok(items, pos)
    ELSE Try(load_item(kind, bytes, pos, ver),
             LAMBDA item, p : load_items(kind, bytes, p, ver, Append(items, item)))
-----------------------------------------------------------------------------
(* The tables of a compiled unit *)

\* binary.new_cursor(start, end) with start = table.offset and
\* end = start + table.count: the bytes of the table, read from position 0
new_cursor(contents, table) ==
    SubSeq(contents, table.offset + 1, table.offset + table.count)

\* AccountAddress::LENGTH
AccountAddress_LENGTH == 32

\* for _i in 0..table.count / AccountAddress::LENGTH: the next address;
\* binary.slice(start, end_addr) panics beyond the contents, and try_into()
\* of the AccountAddress::LENGTH bytes of a slice does not fail
RECURSIVE load_addresses(_, _, _, _)
load_addresses(contents, start, n, addresses) ==
    IF n = 0 THEN Ok(addresses, start)
    ELSE IF start + AccountAddress_LENGTH > Len(contents)
    THEN Err("PANIC", "range end index out of range for slice", start)
    ELSE load_addresses(contents, start + AccountAddress_LENGTH, n - 1,
            Append(addresses,
                   SubSeq(contents, start + 1, start + AccountAddress_LENGTH)))

load_address_identifiers(contents, table, ver, addresses) ==
    IF table.count % AccountAddress_LENGTH # 0
    THEN Err("MALFORMED", "Bad Address Identifier pool size", 0)
    ELSE load_addresses(contents, table.offset,
                        table.count \div AccountAddress_LENGTH, addresses)

\* the unit with the pool that a table loader filled, or the loader's error
with_pool(common, pool, loaded) ==
    IF loaded.ok THEN Ok([common EXCEPT ![pool] = loaded.val], 0) ELSE loaded

\* format!("{}", version) on the versions of the format
VersionDigits == <<"1", "2", "3", "4", "5", "6">>

MetadataNotApplicable(ver) ==
    "metadata declarations not applicable in bytecode version "
        \o VersionDigits[ver]
FriendsNotApplicable == "Friend declarations not applicable in bytecode version 1"

CommonTableKinds ==
    {"MODULE_HANDLES", "STRUCT_HANDLES", "FUNCTION_HANDLES", "FUNCTION_INST",
     "SIGNATURES", "CONSTANT_POOL", "METADATA", "IDENTIFIERS",
     "ADDRESS_IDENTIFIERS"}

ModuleTableKinds ==
    {"STRUCT_DEFS", "STRUCT_DEF_INST", "FUNCTION_DEFS", "FIELD_HANDLE",
     "FIELD_INST", "FRIEND_DECLS"}

\* the pool of the unit that each kind of table fills
PoolOf(kind) ==
    CASE kind = "MODULE_HANDLES" -> "module_handles"
      [] kind = "STRUCT_HANDLES" -> "struct_handles"
      [] kind = "FUNCTION_HANDLES" -> "function_handles"
      [] kind = "FUNCTION_INST" -> "function_instantiations"
      [] kind = "SIGNATURES" -> "signatures"
      [] kind = "CONSTANT_POOL" -> "constant_pool"
      [] kind = "METADATA" -> "metadata"
      [] kind = "IDENTIFIERS" -> "identifiers"
      [] kind = "ADDRESS_IDENTIFIERS" -> "address_identifiers"
      [] kind = "STRUCT_DEFS" -> "struct_defs"
      [] kind = "STRUCT_DEF_INST" -> "struct_def_instantiations"
      [] kind = "FUNCTION_DEFS" -> "function_defs"
      [] kind = "FIELD_HANDLE" -> "field_handles"
      [] kind = "FIELD_INST" -> "field_instantiations"
      [] kind = "FRIEND_DECLS" -> "friend_decls"

\* the items of each kind of table
ItemOf(kind) ==
    CASE kind = "MODULE_HANDLES" -> "ModuleHandle"
      [] kind = "STRUCT_HANDLES" -> "StructHandle"
      [] kind = "FUNCTION_HANDLES" -> "FunctionHandle"
      [] kind = "FUNCTION_INST" -> "FunctionInstantiation"
      [] kind = "SIGNATURES" -> "Signature"
      [] kind = "CONSTANT_POOL" -> "Constant"
      [] kind = "METADATA" -> "Metadata"
      [] kind = "IDENTIFIERS" -> "Identifier"
      [] kind = "STRUCT_DEFS" -> "StructDefinition"
      [] kind = "STRUCT_DEF_INST" -> "StructDefInstantiation"
      [] kind = "FUNCTION_DEFS" -> "FunctionDefinition"
      [] kind = "FIELD_HANDLE" -> "FieldHandle"
      [] kind = "FIELD_INST" -> "FieldInstantiation"
      [] kind = "FRIEND_DECLS" -> "ModuleHandle"

\* the loader of a kind of table, on the pool it appends to: the addresses
\* are cut from the contents, the others are read item by item from
\* binary.new_cursor(start, start + table.count), which panics when the sum
\* overflows a 32-bit usize or the window ends beyond the contents
load_table(kind, contents, table, ver, pool) ==
    IF kind = "ADDRESS_IDENTIFIERS"
    THEN load_address_identifiers(contents, table, ver, pool)
    ELSE IF table.count > U32_MAX - table.offset
    THEN Err("PANIC", "attempt to add with overflow", 0)
    ELSE IF table.offset + table.count > Len(contents)
    THEN Err("PANIC", "range end index out of range for slice", 0)
    ELSE load_items(ItemOf(kind), new_cursor(contents, table), 0, ver, pool)

\* the unit with the table loaded into its pool
fill_pool(contents, table, ver, common) ==
    with_pool(common, PoolOf(table.kind),
              load_table(table.kind, contents, table, ver,
                         common[PoolOf(table.kind)]))

\* A variant of not_applicable that takes metadata from VERSION_4 on.
not_applicable_metadata_from_4(kind, ver) ==
    CASE kind = "METADATA" /\ ver < VERSION_4 ->
            Err("MALFORMED", MetadataNotApplicable(ver), 0)
      [] kind = "FRIEND_DECLS" /\ ver < VERSION_2 ->
            Err("MALFORMED", FriendsNotApplicable, 0)
      [] OTHER -> Ok(kind, 0)

\* the versions of build_common_tables' match: metadata from VERSION_5 on,
\* friend declarations from VERSION_2 on
not_applicable(kind, ver) ==
    CASE kind = "METADATA" /\ ver < VERSION_5 ->
            Err("MALFORMED", MetadataNotApplicable(ver), 0)
      [] kind = "FRIEND_DECLS" /\ ver < VERSION_2 ->
            Err("MALFORMED", FriendsNotApplicable, 0)
      [] OTHER -> Ok(kind, 0)

\* one arm of build_common_tables' match: a common table is loaded, a
\* module table is passed over
build_common_table(contents, table, ver, common) ==
    Try(not_applicable(table.kind, ver),
        LAMBDA kind, p :
            IF kind \in CommonTableKinds
            THEN fill_pool(contents, table, ver, common)
            ELSE Ok(common, 0))

\* build_common_tables: for table in tables, in the order of tables
RECURSIVE build_common_tables(_, _, _, _, _)
build_common_tables(contents, tables_, i, ver, common) ==
    IF i > Len(tables_) THEN Ok(common, 0)
    ELSE Try(build_common_table(contents, tables_[i], ver, common),
             LAMBDA c, p : build_common_tables(contents, tables_, i + 1, ver, c))

\* one arm of build_module_tables' match
build_module_table(contents, table, ver, module) ==
    IF table.kind \in ModuleTableKinds
    THEN fill_pool(contents, table, ver, module)
    ELSE Ok(module, 0)

RECURSIVE build_module_tables(_, _, _, _, _)
build_module_tables(contents, tables_, i, ver, module) ==
    IF i > Len(tables_) THEN Ok(module, 0)
    ELSE Try(build_module_table(contents, tables_[i], ver, module),
             LAMBDA m, p : build_module_tables(contents, tables_, i + 1, ver, m))

\* A variant of build_script_table that passes over the friend declarations.
build_script_table_friends_passed(table, script) ==
    IF table.kind \in ModuleTableKinds \ {"FRIEND_DECLS"}
    THEN Err("MALFORMED", "Bad table in Script", 0)
    ELSE Ok(script, 0)

\* one arm of build_script_tables' match
build_script_table(table, script) ==
    IF table.kind \in ModuleTableKinds
    THEN Err("MALFORMED", "Bad table in Script", 0)
    ELSE Ok(script, 0)

RECURSIVE build_script_tables(_, _, _)
build_script_tables(tables_, i, script) ==
    IF i > Len(tables_) THEN Ok(script, 0)
    ELSE Try(build_script_table(tables_[i], script),
             LAMBDA s, p : build_script_tables(tables_, i + 1, s))
-----------------------------------------------------------------------------
(* The rest of deserialize_compiled_module / deserialize_compiled_script *)

\* VersionedCursor::read_new_binary: exactly n bytes, or MALFORMED
read_new_binary(bytes, pos, n) ==
    map_err(read_exact(bytes, pos, n), "MALFORMED", "")

\* A variant of read_table_contents that leaves the cursor where it was.
read_table_contents_in_place(bytes, pos, n) ==
    LET r == map_err(read_new_binary(bytes, pos, n), "MALFORMED",
                     "Error reading table contents")
    IN  IF r.ok THEN Ok(r.val, pos) ELSE r

\* read_table_contents
read_table_contents(bytes, pos, n) ==
    map_err(read_new_binary(bytes, pos, n), "MALFORMED",
            "Error reading table contents")

\* let table_contents = read_table_contents(&mut cursor, .., content_len)?
ReadTableContents ==
    /\ pc = "tables_checked"
    /\ entry \in UnitEntries
    /\ \E r \in {read_table_contents(binary, cursor, content_len)} :
           /\ cursor' = r.pos
           /\ IF r.ok
              THEN /\ pc' = "table_contents"
                   /\ table_contents' = r.val
                   /\ UNCHANGED result
              ELSE /\ pc' = "done"
                   /\ result' = TopErr(r, "read_table_contents")
                   /\ UNCHANGED table_contents
    /\ UNCHANGED <<binary, entry, vm_state, prev_state, storage, gas, version, tables, content_len, unit, stack,
                   code, bytecode_count>>

\* what the construction of the unit leaves: the unit, or the error of the
\* loader that failed
UnitOutcome(r, stage) ==
    /\ cursor' = r.pos
    /\ IF r.ok
       THEN /\ pc' = "unit"
            /\ unit' = r.val
            /\ UNCHANGED result
       ELSE /\ pc' = "done"
            /\ result' = TopErr(r, stage)
            /\ UNCHANGED unit
    /\ UNCHANGED <<binary, entry, vm_state, prev_state, storage, gas, version, tables, content_len,
                   table_contents, stack, code, bytecode_count>>

\* A variant of new_module that takes the index only at the end of the binary.
new_module_to_the_end(bytes, pos) ==
    Try(load_module_handle_index(bytes, pos),
        LAMBDA idx, p :
            IF p < Len(bytes) THEN Err("MALFORMED", "", p)
            ELSE Ok([EmptyUnit EXCEPT !.self_module_handle_idx = idx], p))

\* CompiledModule { self_module_handle_idx: load_module_handle_index(..)?,
\*                  ..Default::default() }
new_module(bytes, pos) ==
    Try(load_module_handle_index(bytes, pos),
        LAMBDA idx, p : Ok([EmptyUnit EXCEPT !.self_module_handle_idx = idx], p))

\* CompiledScript { type_parameters: load_ability_sets(..)?,
\*                  parameters: load_signature_index(..)?,
\*                  code: load_code_unit(..)?, ..Default::default() }
new_script(bytes, pos, ver) ==
    Try(load_ability_sets(bytes, pos, ver, "FunctionTypeParameters"),
        LAMBDA type_parameters, p1 :
    Try(load_signature_index(bytes, p1),
        LAMBDA parameters, p2 :
    Try(load_code_unit(bytes, p2, ver),
        LAMBDA code_unit, p3 :
            Ok([EmptyUnit EXCEPT !.type_parameters = type_parameters,
                                 !.parameters = parameters,
                                 !.code = <<code_unit>>], p3))))

NewModule ==
    /\ pc = "table_contents"
    /\ entry = "module"
    /\ \E r \in {new_module(binary, cursor)} :
           UnitOutcome(r, "load_module_handle_index")

NewScript ==
    /\ pc = "table_contents"
    /\ entry = "script"
    /\ \E r \in {new_script(binary, cursor, version)} :
           UnitOutcome(r, "script")

\* what a build step leaves: the unit it filled and the next step, or the
\* error it returns
BuildOutcome(r, stage, next) ==
    /\ IF r.ok
       THEN /\ pc' = next
            /\ unit' = r.val
            /\ result' = IF next = "done" THEN TopOk(r.val, stage) ELSE result
       ELSE /\ pc' = "done"
            /\ result' = TopErr(r, stage)
            /\ UNCHANGED unit
    /\ UNCHANGED <<binary, entry, vm_state, prev_state, storage, gas, cursor, version, tables, content_len,
                   table_contents, stack, code, bytecode_count>>

\* build_common_tables(binary, tables, module)?
BuildCommonTables ==
    /\ pc = "unit"
    /\ entry \in UnitEntries
    /\ \E r \in {build_common_tables(table_contents, tables, 1, version, unit)} :
           BuildOutcome(r, "build_common_tables", "common_tables")

\* build_module_tables(binary, tables, module)?; Ok(module)
BuildModuleTables ==
    /\ pc = "common_tables"
    /\ entry = "module"
    /\ \E r \in {build_module_tables(table_contents, tables, 1, version, unit)} :
           BuildOutcome(r, "build_module_tables", "done")

\* build_script_tables(binary, tables, script)?; Ok(script)
BuildScriptTables ==
    /\ pc = "common_tables"
    /\ entry = "script"
    /\ \E r \in {build_script_tables(tables, 1, unit)} :
           BuildOutcome(r, "build_script_tables", "done")

-----------------------------------------------------------------------------
(* SpecUnit: modules and scripts with a few tables *)

MaxUnitTables == 2

UnitVersions == {VERSION_1, VERSION_2, VERSION_4, VERSION_5}

\* a table: its kind byte and its bytes
TableImage(kind, bytes) == [kind |-> kind, bytes |-> bytes]

\* tables that load at some version, one or two of each kind
GoodTables ==
    {TableImage(1, <<0, 0>>), TableImage(2, <<0, 0, 1, 0>>),
     TableImage(3, <<0, 0, 0, 0, 0>>), TableImage(4, <<0, 0>>),
     TableImage(5, <<1, 1>>), TableImage(6, <<1, 1, 7>>),
     TableImage(7, <<1, 97>>), TableImage(8, Zeros(AccountAddress_LENGTH)),
     TableImage(10, <<0, 1>>), TableImage(11, <<0, 0>>),
     TableImage(12, <<0, 0, 1, 0>>), TableImage(12, <<0, 0, 0, 0, 0>>),
     TableImage(13, <<0, 0>>), TableImage(14, <<0, 0>>),
     TableImage(15, <<0, 0>>), TableImage(16, <<1, 7, 1, 7>>)}

\* a signature of an unknown type, and a metadata key cut short
BadTables == {TableImage(5, <<1, 255>>), TableImage(16, <<1>>)}

UnitTables == GoodTables \cup BadTables

RECURSIVE ImagesOfLen(_)
ImagesOfLen(n) ==
    IF n = 0 THEN {<<>>}
    ELSE {Append(s, t) : s \in ImagesOfLen(n - 1), t \in UnitTables}

DistinctKinds(images) ==
    \A i, j \in 1 .. Len(images) : images[i].kind = images[j].kind => i = j

UnitImages ==
    {s \in UNION {ImagesOfLen(k) : k \in 0 .. MaxUnitTables} : DistinctKinds(s)}

\* the bytes of the tables, one after the other
RECURSIVE Contents(_)
Contents(images) ==
    IF images = <<>> THEN <<>>
    ELSE images[1].bytes \o Contents(SubSeq(images, 2, Len(images)))

\* the directory of tables laid one after the other from offset 0
Directory(images) ==
    [i \in 1 .. Len(images) |->
        [kind |-> images[i].kind,
         offset |-> Len(Contents(SubSeq(images, 1, i - 1))),
         count |-> Len(images[i].bytes)]]

\* the self module handle of a module; what follows the tables of a script:
\* no type parameters, a signature, a code unit without instructions, and
\* the same with an unknown opcode in it
UnitTrailers(e) ==
    IF e = "module" THEN {<<0>>}
    ELSE {<<0, 0, 0, 0>>, <<0, 0, 0, 1, 0>>}

\* the same metadata table twice, and a binary cut in its tables
TwiceMetadata ==
    <<[kind |-> 16, offset |-> 0, count |-> 4],
      [kind |-> 16, offset |-> 4, count |-> 4]>>

CutBinaries ==
    {EncodeBinary(v, TwiceMetadata, <<1, 7, 1, 7, 1, 7, 1, 7, 0>>) :
        v \in UnitVersions}
    \cup {EncodeBinary(v, Directory(s), <<>>) :
            v \in UnitVersions, s \in {<<TableImage(16, Zeros(20))>>}}

\* no trailer, a trailer cut in its first ULEB128, and one with an index
\* above every maximum, after tables that load and tables that do not
BadTrailers == {<<>>, <<128>>, <<128, 128, 4>>}

BadTrailerBinaries ==
    {EncodeBinary(v, Directory(s), Contents(s) \o t) :
        v \in UnitVersions, t \in BadTrailers,
        s \in {<<>>, <<TableImage(5, <<1, 255>>)>>,
               <<TableImage(1, <<0, 0>>), TableImage(16, <<1>>)>>}}

\* a table after a gap, and a table whose end is beyond u32
GapUnitDirectory ==
    <<[kind |-> 1, offset |-> 0, count |-> 2],
      [kind |-> 7, offset |-> 3, count |-> 2]>>

FaultBinaries ==
    {EncodeBinary(v, dir, Zeros(5) \o <<0>>) :
        v \in UnitVersions, dir \in {GapUnitDirectory, OverflowDirectory}}

InitUnit ==
    /\ entry \in UnitEntries
    /\ pc = "start"
    /\ \/ \E v \in UnitVersions, s \in UnitImages, t \in UnitTrailers(entry) :
             binary = EncodeBinary(v, Directory(s), Contents(s) \o t)
       \/ binary \in CutBinaries
       \/ binary \in BadTrailerBinaries
       \/ binary \in FaultBinaries
    /\ cursor = 0
    /\ version = 0
    /\ Idle

NextUnit ==
    \/ NewCursor
    \/ ReadTables
    \/ CheckTables
    \/ ReadTableContents
    \/ NewModule
    \/ NewScript
    \/ BuildCommonTables
    \/ BuildModuleTables
    \/ BuildScriptTables

SpecUnit == InitUnit /\ [][NextUnit]_vars
-----------------------------------------------------------------------------
(* Claims C5 and C10: the tables of scripts, metadata and friends *)

\* the kinds of the tables of the directory that was read
DirectoryKinds == {tables[i].kind : i \in 1 .. Len(tables)}

UnitDone == entry \in UnitEntries /\ pc = "done"

\* the decoder got as far as build_compiled_module / build_compiled_script
BuildStages ==
    {"build_common_tables", "build_module_tables", "build_script_tables"}

BadTableInScript ==
    /\ ~result.ok
    /\ result.status = "MALFORMED"
    /\ result.msg = "Bad table in Script"

\* C5 as stated: a script with a module table in its directory, decoded as
\* far as build_compiled_script, is rejected with MALFORMED ("Bad table in
\* Script") whatever the other tables contain.
C5_Original ==
    (UnitDone /\ entry = "script" /\ result.stage \in BuildStages
        /\ DirectoryKinds \cap ModuleTableKinds # {})
    => BadTableInScript

\* C5: decoding a script whose directory has a table of a kind of
\* ModuleTableKinds never returns Ok; build_script_tables, when the decoder
\* gets to it, returns MALFORMED ("Bad table in Script"), and an error of an
\* earlier step (the directory, the contents, the trailer, a common table,
\* the versions of metadata and friends) is returned in its place.
C5_ModuleTablesInScript ==
    /\ [](UnitDone /\ entry = "script"
            /\ DirectoryKinds \cap ModuleTableKinds # {}
          => /\ ~result.ok
             /\ result.stage = "build_script_tables" => BadTableInScript)
    /\ [][(pc = "common_tables" /\ entry = "script"
            /\ DirectoryKinds \cap ModuleTableKinds # {})
          => (pc' = "done" /\ result'.stage = "build_script_tables"
                /\ result'.status = "MALFORMED"
                /\ result'.msg = "Bad table in Script")]_vars

\* a script whose signatures were loaded and whose struct definitions were
\* then refused
C5_Witness ==
    /\ UnitDone /\ entry = "script"
    /\ "STRUCT_DEFS" \in DirectoryKinds
    /\ unit.signatures # <<>>
    /\ result.stage = "build_script_tables"
    /\ BadTableInScript

\* the first table of tables of a kind that the version does not have
Inapplicable(i) ==
    /\ i \in 1 .. Len(tables)
    /\ ~not_applicable(tables[i].kind, version).ok
    /\ \A j \in 1 .. i - 1 : not_applicable(tables[j].kind, version).ok

\* the tables before table i load
LoadsBefore(i) ==
    build_common_tables(table_contents, SubSeq(tables, 1, i - 1), 1, version,
                        unit).ok

MetadataTooEarly == "METADATA" \in DirectoryKinds /\ version < VERSION_5
FriendsTooEarly == "FRIEND_DECLS" \in DirectoryKinds /\ version < VERSION_2

NotApplicableMessages ==
    {MetadataNotApplicable(v) : v \in Versions} \cup {FriendsNotApplicable}

\* C10 as stated: a binary with a METADATA table below version 5, or with a
\* FRIEND_DECLS table below version 2, decoded as far as
\* build_compiled_module / build_compiled_script, is rejected with MALFORMED.
C10_Original ==
    (UnitDone /\ result.stage \in BuildStages
        /\ (MetadataTooEarly \/ FriendsTooEarly))
    => (~result.ok /\ result.status = "MALFORMED")

\* C10: a unit with a METADATA table below version 5, or a FRIEND_DECLS
\* table below version 2, is never decoded; build_common_tables returns
\* MALFORMED with the message of the first such table when the tables before
\* it load, and never returns those messages at or above those versions,
\* where it loads the METADATA table and passes over the FRIEND_DECLS table,
\* which build_module_tables then loads.
C10_VersionsOfTables ==
    /\ [](UnitDone /\ (MetadataTooEarly \/ FriendsTooEarly) => ~result.ok)
    /\ [](UnitDone /\ result.msg \in NotApplicableMessages
          => /\ result.stage = "build_common_tables"
             /\ result.msg = FriendsNotApplicable => FriendsTooEarly
             /\ result.msg # FriendsNotApplicable
                => MetadataTooEarly /\ result.msg = MetadataNotApplicable(version))
    /\ [][pc = "unit" =>
            /\ \A i \in 1 .. Len(tables) :
                  Inapplicable(i) /\ LoadsBefore(i)
                  => /\ pc' = "done"
                     /\ result'.status = "MALFORMED"
                     /\ result'.msg = not_applicable(tables[i].kind, version).msg
            /\ pc' = "common_tables"
               => /\ "METADATA" \in DirectoryKinds
                     => version >= VERSION_5 /\ unit'.metadata # <<>>
                  /\ "FRIEND_DECLS" \in DirectoryKinds
                     => version >= VERSION_2 /\ unit'.friend_decls = <<>>]_vars
    /\ [][(pc = "common_tables" /\ entry = "module" /\ pc' = "done"
            /\ result'.ok /\ "FRIEND_DECLS" \in DirectoryKinds)
          => unit'.friend_decls # <<>>]_vars

\* a unit of version 4 whose signatures load and whose metadata is refused
C10_Witness ==
    /\ UnitDone
    /\ version = VERSION_4
    /\ Len(tables) = 2
    /\ tables[1].kind = "SIGNATURES"
    /\ tables[2].kind = "METADATA"
    /\ result.stage = "build_common_tables"
    /\ result.status = "MALFORMED"
    /\ result.msg = MetadataNotApplicable(VERSION_4)

-----------------------------------------------------------------------------
(* SpecLoaders: one loader on a stream, one table loader on its window *)

\* the items that load_item reads
ItemKinds ==
    {"AbilitySet:FunctionTypeParameters", "AbilitySet:StructTypeParameters",
     "AbilitySet:StructHandle", "StructTypeParameter", "SignatureToken",
     "FieldDefinition", "StructDefinitionIndex", "ModuleHandle",
     "StructHandle", "FunctionHandle", "StructDefInstantiation",
     "FunctionInstantiation", "Identifier", "Constant", "Metadata",
     "Signature", "StructDefinition", "FunctionDefinition", "FieldHandle",
     "FieldInstantiation"}

TableKinds == CommonTableKinds \cup ModuleTableKinds

\* what a loader leaves: the cursor after what it read, and its result
LoaderOutcome(r, stage) ==
    /\ cursor' = r.pos
    /\ pc' = "done"
    /\ result' = IF r.ok THEN TopOk(r.val, stage) ELSE TopErr(r, stage)
    /\ UNCHANGED <<binary, entry, vm_state, prev_state, storage, gas, version, tables, content_len,
                   table_contents, unit, stack, code, bytecode_count>>

\* one call of the loader of an item on a cursor over binary
LoadItem ==
    /\ pc = "item"
    /\ entry \in ItemKinds
    /\ LoaderOutcome(load_item(entry, binary, cursor, version), "load_item")

\* one call of the loader of a table; binary is the table contents and
\* tables[1] the table
LoadTable ==
    /\ pc = "table"
    /\ entry \in TableKinds
    /\ LoaderOutcome(load_table(entry, binary, tables[1], version, <<>>),
                     "load_table")

MaxTableLen == 4
MaxItemLen == 3

\* bytes of indices, flags, abilities and counts
LoaderBytes == {0, 1, 2, 3}

\* two native functions, the first an entry function, that are one function
\* of three acquires at version 1; four type parameters, the first a
\* phantom, that are four type parameters and a struct handle below
\* version 3
TwoNativeFunctions == <<0, 0, 3, 0, 0, 0, 1, 0>>

\* an entry function whose code is one VEC_LEN
VectorEntryFunction == <<0, 0, 2, 0, 0, 1, 65, 0>>
FourTypeParameters == <<0, 0, 1, 4, 0, 1, 0, 0, 0, 0, 0, 0>>

\* a function whose code ends within the eight bytes of LD_U64
CutLoadU64 == <<0, 0, 0, 0, 0, 1, 6, 0, 0>>

\* identifiers "a", "a" and "b", and "a" where two bytes are announced
IdentifierStreams == {<<1, 97>>, <<1, 97, 1, 98>>, <<2, 97>>}

TableStreams(kind) ==
    CASE kind = "FUNCTION_DEFS" ->
            SeqsUpTo(LoaderBytes, MaxTableLen)
                \cup {TwoNativeFunctions, VectorEntryFunction, CutLoadU64}
      [] kind = "STRUCT_HANDLES" ->
            SeqsUpTo({0, 1, 2}, MaxTableLen + 2) \cup {FourTypeParameters}
      [] kind = "IDENTIFIERS" ->
            SeqsUpTo({0, 1}, MaxTableLen) \cup IdentifierStreams
      [] kind = "ADDRESS_IDENTIFIERS" ->
            SeqsUpTo({0, 1}, MaxTableLen)
                \cup {Zeros(AccountAddress_LENGTH),
                      Zeros(AccountAddress_LENGTH + 1),
                      Zeros(2 * AccountAddress_LENGTH)}
      [] OTHER -> SeqsUpTo({0, 1}, MaxTableLen)

\* the bytes of the table contents before and after the table
TablePads == {<<>>, <<255>>}

AbilitySetKinds ==
    {"AbilitySet:FunctionTypeParameters", "AbilitySet:StructTypeParameters",
     "AbilitySet:StructHandle"}

\* every byte, and the bytes of ULEB128 values of one and two groups
AllBytes == 0 .. 255
UlebStreams ==
    {<<b>> : b \in AllBytes}
        \cup {<<b, c>> : b \in {128, 129, 143, 144, 255}, c \in {0, 1, 2, 128}}

\* function definitions: a function handle index, two bytes of flags (at
\* version 1 one byte of flags and the count of acquires), and what follows
\* them: nothing, no acquires, no acquires and a code unit without
\* instructions, with one POP, or with an unknown opcode
FlagBytes == {0, 1, 2, 3, 4, 5, 255}
ExtraFlagBytes == 0 .. 7
FunctionTails == {<<>>, <<0>>, <<0, 0, 0>>, <<0, 0, 1, 1>>, <<0, 0, 1, 0>>}
FunctionDefStreams ==
    {<<0, b1, b2>> \o t :
        b1 \in FlagBytes, b2 \in ExtraFlagBytes, t \in FunctionTails}

ItemStreams(kind) ==
    CASE kind \in AbilitySetKinds ->
            SeqsUpTo(LoaderBytes, MaxItemLen) \cup UlebStreams
      [] kind = "FunctionDefinition" ->
            SeqsUpTo(LoaderBytes, MaxItemLen) \cup FunctionDefStreams
      [] kind = "StructTypeParameter" ->
            SeqsUpTo(LoaderBytes, MaxItemLen)
                \cup {<<a>> \o flag : a \in {1, 3, 15}, flag \in UlebStreams}
      [] OTHER -> SeqsUpTo(LoaderBytes, MaxItemLen)

InitLoaders ==
    /\ vm_state = "OTHER"
    /\ prev_state = "OTHER"
    /\ storage = {}
    /\ gas = Unmetered
    /\ version \in Versions
    /\ cursor = 0
    /\ content_len = 0
    /\ table_contents = <<>>
    /\ unit = EmptyUnit
    /\ stack = <<>>
    /\ code = <<>>
    /\ bytecode_count = 0
    /\ result = TopNone
    /\ \/ /\ pc = "item"
          /\ entry \in ItemKinds
          /\ binary \in ItemStreams(entry)
          /\ tables = <<>>
       \/ /\ pc = "table"
          /\ entry \in TableKinds
          /\ \E bytes \in TableStreams(entry) \ {<<>>}, pad \in TablePads :
                /\ binary = pad \o bytes \o pad
                /\ tables = <<Table(entry, Len(pad), Len(bytes))>>

NextLoaders == LoadItem \/ LoadTable

SpecLoaders == InitLoaders /\ [][NextLoaders]_vars

-----------------------------------------------------------------------------
(* Claim C11: entry functions and phantom type parameters by version *)

TableDone == pc = "done" /\ entry \in TableKinds

\* the table of the state, loaded at version v
LoadedAt(v) == load_table(entry, binary, tables[1], v, <<>>)

HasEntryFunction(defs) == \E i \in 1 .. Len(defs) : defs[i].is_entry

HasPhantom(handles) ==
    \E i \in 1 .. Len(handles) :
        \E j \in 1 .. Len(handles[i].type_parameters) :
            handles[i].type_parameters[j].is_phantom

\* the table decodes at VERSION_5 with a function that the ENTRY bit makes
\* an entry function
UsesEntry ==
    /\ entry = "FUNCTION_DEFS"
    /\ LoadedAt(VERSION_5).ok
    /\ HasEntryFunction(LoadedAt(VERSION_5).val)

\* the table decodes at VERSION_3 with a phantom type parameter
UsesPhantom ==
    /\ entry = "STRUCT_HANDLES"
    /\ LoadedAt(VERSION_3).ok
    /\ HasPhantom(LoadedAt(VERSION_3).val)

\* C11 as stated: the bytes of a table that decodes with an entry function
\* at version 5, or with a phantom type parameter at version 3, are
\* rejected with MALFORMED at every lower version.
C11_Original ==
    (TableDone /\ \/ UsesEntry /\ version < VERSION_5
                  \/ UsesPhantom /\ version < VERSION_3)
    => (~result.ok /\ result.status = "MALFORMED")

\* C11: a table that decodes with an entry function at version 5 decodes so
\* from version 5 on, and at versions 2 to 4 the same bytes are rejected,
\* with INVALID_FLAG_BITS at version 4 (the ENTRY bit is left in the flags)
\* and with INVALID_FLAG_BITS or MALFORMED at versions 2 and 3; a phantom
\* type parameter is decoded only from version 3 on, and below it the
\* phantom byte is not read with its parameter, so what the same bytes
\* decode to depends on the bytes that follow. At version 1 the bytes of the
\* entry function are rejected or decode to other functions.
C11_FeatureVersions ==
    /\ (TableDone /\ UsesEntry /\ version >= VERSION_5)
       => (result.ok /\ HasEntryFunction(result.val))
    /\ (TableDone /\ UsesEntry /\ version \in VERSION_2 .. VERSION_4)
       => /\ ~result.ok
          /\ result.status \in {"INVALID_FLAG_BITS", "MALFORMED"}
          /\ version = VERSION_4 => result.status = "INVALID_FLAG_BITS"
    /\ (TableDone /\ UsesPhantom /\ version >= VERSION_3)
       => (result.ok /\ HasPhantom(result.val))
    /\ (TableDone /\ entry = "STRUCT_HANDLES" /\ result.ok
          /\ HasPhantom(result.val))
       => version >= VERSION_3
    /\ (TableDone /\ entry = "FUNCTION_DEFS" /\ result.ok
          /\ HasEntryFunction(result.val) /\ version < VERSION_5)
       => /\ version \in VERSION_2 .. VERSION_4
          /\ \E i \in 1 .. Len(binary) : binary[i] = Visibility_DEPRECATED_SCRIPT

\* the bytes of an entry function, refused at version 4
C11_Witness ==
    /\ TableDone
    /\ UsesEntry
    /\ version = VERSION_4
    /\ result.status = "INVALID_FLAG_BITS"

-----------------------------------------------------------------------------
(* Claim C12: the ability set of the old kind system *)

ItemDone == pc = "done" /\ entry \in ItemKinds

AbilityDone == ItemDone /\ entry \in AbilitySetKinds

\* the abilities of a set, by name
AbilitiesOf(set) ==
    {a \in {"Copy", "Drop", "Store", "Key"} :
        HasBit(set, CASE a = "Copy" -> Ability_Copy
                      [] a = "Drop" -> Ability_Drop
                      [] a = "Store" -> Ability_Store
                      [] a = "Key" -> Ability_Key)}

\* the bytes of the old kind system at each position, and what they stand for
DeprecatedBytes ==
    [x \in AbilitySetKinds |->
        CASE x = "AbilitySet:StructHandle" ->
                (1 :> {"Store", "Key"}) @@ (2 :> {"Store", "Copy", "Drop"})
          [] x = "AbilitySet:FunctionTypeParameters" ->
                (1 :> {"Store"}) @@ (2 :> {"Store", "Copy", "Drop"})
                    @@ (3 :> {"Store", "Key"})
          [] x = "AbilitySet:StructTypeParameters" ->
                (1 :> {}) @@ (2 :> {"Copy", "Drop"}) @@ (3 :> {"Key"})]

\* C12: at version 1 load_ability_set reads exactly one byte and maps it by
\* position: at a struct handle 1 is {Store, Key} and 2 is {Store, Copy,
\* Drop}; at a function type parameter 1 is {Store}, 2 is {Store, Copy, Drop}
\* and 3 is {Store, Key}; at a struct type parameter 1 is {}, 2 is {Copy,
\* Drop} and 3 is {Key}; every other byte is rejected with UNKNOWN_ABILITY.
C12_DeprecatedAbilities ==
    (AbilityDone /\ version = VERSION_1 /\ binary # <<>>) =>
        IF binary[1] \in DOMAIN DeprecatedBytes[entry]
        THEN /\ result.ok
             /\ AbilitiesOf(result.val) = DeprecatedBytes[entry][binary[1]]
             /\ cursor = 1
        ELSE /\ ~result.ok
             /\ result.status = "UNKNOWN_ABILITY"

\* byte 3 at a function type parameter, with bytes after it, is {Store, Key}
C12_Witness ==
    /\ AbilityDone
    /\ version = VERSION_1
    /\ entry = "AbilitySet:FunctionTypeParameters"
    /\ Len(binary) > 1
    /\ binary[1] = 3
    /\ result.ok
    /\ AbilitiesOf(result.val) = {"Store", "Key"}
    /\ cursor = 1

-----------------------------------------------------------------------------
(* Claim C13: the ability set from version 2 *)

\* the abilities whose bits are set in a byte
BitsOf(byte) ==
    {a \in {"Copy", "Drop", "Store", "Key"} :
        CASE a = "Copy" -> byte % 2 = 1
          [] a = "Drop" -> (byte \div 2) % 2 = 1
          [] a = "Store" -> (byte \div 4) % 2 = 1
          [] a = "Key" -> (byte \div 8) % 2 = 1}

\* C13 as stated: from version 2 a value that is not a combination of the
\* four abilities is rejected with UNKNOWN_ABILITY.
C13_Original ==
    (AbilityDone /\ version >= VERSION_2 /\ binary # <<>>
        /\ binary[1] > 15 /\ binary[1] < 128) =>
        (~result.ok /\ result.status = "UNKNOWN_ABILITY")

\* C13: from version 2 load_ability_set reads one ULEB128 bounded by the
\* mask of the four abilities: a first byte of at most 15 is the whole value,
\* and the set returned has exactly its bits; every other stream is rejected
\* with MALFORMED by the bounded reader, so that UNKNOWN_ABILITY is never
\* returned.
C13_AbilityBits ==
    (AbilityDone /\ version >= VERSION_2) =>
        IF binary # <<>> /\ binary[1] <= 15
        THEN /\ result.ok
             /\ AbilitiesOf(result.val) = BitsOf(binary[1])
             /\ cursor = 1
        ELSE /\ ~result.ok
             /\ result.status = "MALFORMED"

\* the value 16 is rejected by the bounded reader
C13_Witness ==
    /\ AbilityDone
    /\ version = VERSION_2
    /\ binary = <<16>>
    /\ ~result.ok
    /\ result.status = "MALFORMED"
    /\ result.msg = "Uleb greater than max requested"

-----------------------------------------------------------------------------
(* Claim C14: visibility and is_entry of a function definition by version *)

\* load_function_def has read the function handle index and a flag byte
FunctionDefDone ==
    /\ ItemDone
    /\ entry = "FunctionDefinition"
    /\ Len(binary) >= 2
    /\ binary[1] < 128

\* the visibility bytes and their names
VisibilityBytes == (0 :> "Private") @@ (1 :> "Public") @@ (3 :> "Friend")

InvalidVisibility ==
    /\ ~result.ok
    /\ result.status = "MALFORMED"
    /\ result.msg = "Invalid visibility byte"

Derived(visibility, is_entry) ==
    result.ok =>
        /\ result.val.visibility = visibility
        /\ result.val.is_entry = is_entry

\* C14: load_function_def derives (visibility, is_entry) by version. At
\* version 1 the one flag byte gives Public when DEPRECATED_PUBLIC_BIT is set
\* and Private otherwise, and is_entry is false. At versions 2 to 4 the first
\* byte DEPRECATED_SCRIPT gives (Public, true), another valid visibility byte
\* gives (that visibility, false), and an invalid one is rejected with
\* MALFORMED. From version 5 the first byte must be a valid visibility
\* (DEPRECATED_SCRIPT and every other invalid byte are rejected with
\* MALFORMED) and is_entry is true exactly when the ENTRY bit of the second
\* byte is set.
C14_FlagsByVersion ==
    FunctionDefDone =>
        LET first == binary[2]
        IN  CASE version = VERSION_1 ->
                    Derived(IF first % 2 = 1 THEN "Public" ELSE "Private",
                            FALSE)
              [] version \in VERSION_2 .. VERSION_4 ->
                    IF first = 2 THEN Derived("Public", TRUE)
                    ELSE IF first \in DOMAIN VisibilityBytes
                    THEN Derived(VisibilityBytes[first], FALSE)
                    ELSE InvalidVisibility
              [] version >= VERSION_5 ->
                    IF first \in DOMAIN VisibilityBytes
                    THEN Derived(VisibilityBytes[first],
                                 Len(binary) >= 3
                                    /\ (binary[3] \div 2) % 2 = 1)
                    ELSE InvalidVisibility

\* a native Friend entry function of version 5
C14_Witness ==
    /\ FunctionDefDone
    /\ version = VERSION_5
    /\ binary = <<0, 3, 3, 0>>
    /\ result.ok
    /\ result.val.visibility = "Friend"
    /\ result.val.is_entry

-----------------------------------------------------------------------------
(* Claim C15: the NATIVE bit and the bits left in the flags *)

\* load_function_def has extracted the visibility and is_entry
FlagsExtracted ==
    /\ FunctionDefDone
    /\ \/ version = VERSION_1
       \/ /\ Len(binary) >= 3
          /\ \/ binary[2] \in DOMAIN VisibilityBytes
             \/ binary[2] = 2 /\ version < VERSION_5

\* the flags that remain, on the wire, and the position after the flag bytes
RemainingFlags ==
    CASE version = VERSION_1 -> binary[2] - (binary[2] % 2)
      [] version \in VERSION_2 .. VERSION_4 -> binary[3]
      [] version >= VERSION_5 ->
            binary[3] - 2 * ((binary[3] \div 2) % 2)

AfterFlags == IF version = VERSION_1 THEN 2 ELSE 3

IsNative == RemainingFlags % 2 = 1

\* the acquires and the code unit that follow the flags
Acquires == load_struct_definition_indices(binary, AfterFlags, version)

CodeUnitRead == load_code_unit(binary, Acquires.pos, version)

\* what follows the flags decodes: the acquires and, unless NATIVE is set,
\* the code unit
BodyDecodes == Acquires.ok /\ (IsNative \/ CodeUnitRead.ok)

\* C15 as stated: every definition whose remaining flags have a bit set
\* other than NATIVE is rejected with INVALID_FLAG_BITS.
C15_Original ==
    (FlagsExtracted /\ RemainingFlags \notin {0, 1}) =>
        (~result.ok /\ result.status = "INVALID_FLAG_BITS")

\* C15: after the visibility and entry bits are extracted, a definition with
\* the NATIVE bit decodes with no code and the cursor stays after the
\* acquires; a definition without it decodes with the code unit read after
\* the acquires; a definition with another bit left is never decoded, and is
\* rejected with INVALID_FLAG_BITS when its acquires and its code unit
\* decode, and with the error of the acquires or of the code unit otherwise.
C15_NativeAndResidualFlags ==
    FlagsExtracted =>
        /\ result.ok <=> (BodyDecodes /\ RemainingFlags \in {0, 1})
        /\ (result.ok /\ IsNative) =>
                (result.val.code = <<>> /\ cursor = Acquires.pos)
        /\ (result.ok /\ ~IsNative) =>
                /\ result.val.code = <<CodeUnitRead.val>>
                /\ cursor = CodeUnitRead.pos
        /\ (BodyDecodes /\ RemainingFlags \notin {0, 1}) =>
                result.status = "INVALID_FLAG_BITS"
        /\ (~Acquires.ok) => result.status = Acquires.status
        /\ (Acquires.ok /\ ~IsNative /\ ~CodeUnitRead.ok) =>
                result.status = CodeUnitRead.status

\* a function of version 5 with an unassigned flag bit, after its code unit
C15_Witness ==
    /\ FlagsExtracted
    /\ version = VERSION_5
    /\ binary = <<0, 0, 4, 0, 0, 0>>
    /\ cursor = 6
    /\ ~result.ok
    /\ result.status = "INVALID_FLAG_BITS"

-----------------------------------------------------------------------------
(* Claim C16: the opcode bytes *)

\* load_code returns UNKNOWN_OPCODE, the cursor just after the opcode byte
\* and no instruction added
UnknownOpcodeRejected ==
    /\ pc' = "done"
    /\ ~result'.ok
    /\ result'.status = "UNKNOWN_OPCODE"
    /\ cursor' = cursor + 1
    /\ code' = code

\* C16: every opcode byte 1..77 (0x01..0x4D) is an opcode, two of these
\* bytes are never the same opcode, and an instruction that load_code adds
\* for such a byte has the opcode of the byte; every other byte (0 and
\* 78..255) is rejected with UNKNOWN_OPCODE at every version, the versions
\* below the gates included.
C16_OpcodeBytes ==
    [][ ReadsOpcode =>
          LET byte == binary[cursor + 1]
          IN  IF byte \in 1 .. 77
              THEN /\ Opcodes_from_u8(byte).ok
                   /\ \A other \in (1 .. 77) \ {byte} :
                        Opcodes_from_u8(other).val # Opcodes_from_u8(byte).val
                   /\ ~(pc' = "done" /\ result'.status = "UNKNOWN_OPCODE")
                   /\ Len(code') = Len(code) + 1 =>
                        code'[Len(code')].op = Opcodes_from_u8(byte).val
              ELSE UnknownOpcodeRejected
      ]_vars

\* the byte 0xFF as the second instruction at version 1
C16_Witness ==
    /\ entry \in CodeEntries
    /\ pc = "done"
    /\ version = VERSION_1
    /\ cursor = 3
    /\ binary[cursor] = 255
    /\ Len(code) = 1
    /\ ~result.ok
    /\ result.status = "UNKNOWN_OPCODE"

-----------------------------------------------------------------------------
(* Claim C17: load_code on a stream that ends too early *)

\* load_code owes an instruction and no byte is left
OwesOpcode ==
    /\ entry \in CodeEntries
    /\ pc = "code_loop"
    /\ Len(code) < bytecode_count
    /\ cursor >= Len(binary)

\* the opcode at the cursor, once it passed the version gates, and the
\* bytes after it
OpcodeRead == Opcodes_from_u8(binary[cursor + 1]).val

PassesGates ==
    /\ Opcodes_from_u8(binary[cursor + 1]).ok
    /\ OpcodeRead \in VectorOpcodes => version >= VERSION_4
    /\ OpcodeRead \in IntegerOpcodes => version >= VERSION_6

OperandBytesLeft == SubSeq(binary, cursor + 2, Len(binary))

\* the operands: one byte, a fixed number of bytes, a ULEB128 index, or a
\* ULEB128 index and eight bytes
FixedOperands ==
    [LD_U16 |-> 2, LD_U32 |-> 4, LD_U64 |-> 8, LD_U128 |-> 16, LD_U256 |-> 32]

FixedOpcodes == {"LD_U16", "LD_U32", "LD_U64", "LD_U128", "LD_U256"}

IndexAndU64Opcodes == {"VEC_PACK", "VEC_UNPACK"}

IndexOpcodes ==
    {"BR_TRUE", "BR_FALSE", "BRANCH", "LD_CONST", "COPY_LOC", "MOVE_LOC",
     "ST_LOC", "MUT_BORROW_LOC", "IMM_BORROW_LOC", "MUT_BORROW_FIELD",
     "IMM_BORROW_FIELD", "MUT_BORROW_FIELD_GENERIC",
     "IMM_BORROW_FIELD_GENERIC", "CALL", "CALL_GENERIC", "PACK", "UNPACK",
     "EXISTS", "MUT_BORROW_GLOBAL", "IMM_BORROW_GLOBAL", "MOVE_FROM",
     "MOVE_TO", "PACK_GENERIC", "UNPACK_GENERIC", "EXISTS_GENERIC",
     "MUT_BORROW_GLOBAL_GENERIC", "IMM_BORROW_GLOBAL_GENERIC",
     "MOVE_FROM_GENERIC", "MOVE_TO_GENERIC", "VEC_LEN", "VEC_IMM_BORROW",
     "VEC_MUT_BORROW", "VEC_PUSH_BACK", "VEC_POP_BACK", "VEC_SWAP"}

\* the stream ends within a ULEB128: every byte left continues it
UlebCut(bytes) == \A i \in 1 .. Len(bytes) : bytes[i] >= 128

\* the bytes of the ULEB128 that bytes starts with
UlebLength(bytes) ==
    CHOOSE i \in 1 .. Len(bytes) :
        bytes[i] < 128 /\ \A j \in 1 .. i - 1 : bytes[j] >= 128

\* the stream ends within the eight bytes after a signature index
U64Cut(bytes) ==
    /\ ~UlebCut(bytes)
    /\ read_uleb128_as_u64(bytes, 0).ok
    /\ read_uleb128_as_u64(bytes, 0).val <= SIGNATURE_INDEX_MAX
    /\ Len(bytes) - UlebLength(bytes) < 8

\* the status of load_code when the stream ends within the operand of the
\* opcode read, "" when it does not end there
CutStatus ==
    CASE OpcodeRead = "LD_U8" ->
            IF OperandBytesLeft = <<>> THEN "MALFORMED" ELSE ""
      [] OpcodeRead \in FixedOpcodes ->
            IF Len(OperandBytesLeft) < FixedOperands[OpcodeRead]
            THEN CASE OpcodeRead = "LD_U16" -> "BAD_U16"
                   [] OpcodeRead = "LD_U32" -> "BAD_U32"
                   [] OpcodeRead = "LD_U64" -> "BAD_U64"
                   [] OpcodeRead = "LD_U128" -> "BAD_U128"
                   [] OpcodeRead = "LD_U256" -> "BAD_U256"
            ELSE ""
      [] OpcodeRead \in IndexOpcodes ->
            IF UlebCut(OperandBytesLeft) THEN "MALFORMED" ELSE ""
      [] OpcodeRead \in IndexAndU64Opcodes ->
            IF UlebCut(OperandBytesLeft) THEN "MALFORMED"
            ELSE IF U64Cut(OperandBytesLeft) THEN "BAD_U64" ELSE ""
      [] OTHER -> ""

CodeRejected(status) ==
    /\ pc' = "done"
    /\ ~result'.ok
    /\ result'.status = status
    /\ code' = code

\* C17 as stated: a stream that ends after an opcode and before all of its
\* operand bytes makes load_code fail with MALFORMED.
C17_Original ==
    [][ (ReadsOpcode /\ PassesGates /\ CutStatus # "") =>
            CodeRejected("MALFORMED")
      ]_vars

\* C17: when the stream ends before the opcode byte of an instruction owed
\* by the count, in the byte of LD_U8 or in a ULEB128 operand, load_code
\* fails with MALFORMED; when it ends in the bytes of LD_U16, LD_U32,
\* LD_U64, LD_U128 or LD_U256 it fails with BAD_U16, BAD_U32, BAD_U64,
\* BAD_U128 or BAD_U256, and in the eight bytes of VEC_PACK or VEC_UNPACK
\* with BAD_U64.
C17_CutStream ==
    [][ /\ OwesOpcode => CodeRejected("MALFORMED")
        /\ (ReadsOpcode /\ PassesGates /\ CutStatus # "") =>
                CodeRejected(CutStatus)
      ]_vars

\* LD_U16 of version 6 with one byte after it
C17_Witness ==
    /\ entry \in CodeEntries
    /\ pc = "done"
    /\ version = VERSION_6
    /\ binary = <<1, 72, 1>>
    /\ ~result.ok
    /\ result.status = "BAD_U16"

-----------------------------------------------------------------------------
(* Claim C18: the kind byte of a directory entry *)

KnownKindBytes == (1 .. 8) \cup (10 .. 16)

\* the directory entry at a position of the wire: its kind byte and the two
\* ULEB128 after it
WireEntry(pos) ==
    LET offset == read_uleb128_as_u64(binary, pos + 1)
    IN  [kind |-> binary[pos + 1],
         offset |-> offset,
         count |-> read_uleb128_as_u64(binary, offset.pos)]

\* the kind byte of the entry is followed by an offset and a size within
\* their maxima
FieldsRead(e) ==
    /\ e.offset.ok /\ e.offset.val <= TABLE_OFFSET_MAX
    /\ e.count.ok /\ e.count.val <= TABLE_SIZE_MAX

\* the first n entries from a position, up to the first one whose offset
\* or size is not read
RECURSIVE WireEntries(_, _)
WireEntries(pos, n) ==
    IF n = 0 \/ pos >= Len(binary) THEN <<>>
    ELSE IF ~FieldsRead(WireEntry(pos)) THEN <<WireEntry(pos)>>
    ELSE <<WireEntry(pos)>> \o WireEntries(WireEntry(pos).count.pos, n - 1)

\* the directory that read_tables is about to read
ReadsDirectory ==
    /\ entry \in UnitEntries
    /\ pc = "cursor"
    /\ load_table_count(binary, cursor).ok

DirectoryAhead ==
    WireEntries(load_table_count(binary, cursor).pos,
                load_table_count(binary, cursor).val)

\* entry i is the first of an unknown kind, after entries that are read
FirstUnknownKind(es, i) ==
    /\ i \in 1 .. Len(es)
    /\ es[i].kind \notin KnownKindBytes
    /\ \A j \in 1 .. i - 1 : es[j].kind \in KnownKindBytes /\ FieldsRead(es[j])

ReadTablesRejected(status) ==
    /\ pc' = "done"
    /\ ~result'.ok
    /\ result'.stage = "read_tables"
    /\ result'.status = status

\* C18 as stated: a directory entry whose kind byte is not one of 1..8,
\* 10..16 makes the decode fail with UNKNOWN_TABLE_TYPE.
C18_Original ==
    [][ (ReadsDirectory
            /\ \E i \in 1 .. Len(DirectoryAhead) :
                    FirstUnknownKind(DirectoryAhead, i)) =>
            ReadTablesRejected("UNKNOWN_TABLE_TYPE")
      ]_vars

\* C18: the first directory entry whose kind byte is not one of 1..8, 10..16
\* makes read_tables fail, before the layout of the directory is checked:
\* with UNKNOWN_TABLE_TYPE when its offset and its size are read, and with
\* the MALFORMED of the offset or of the size otherwise, the kind being
\* converted after them.
C18_UnknownKind ==
    [][ ReadsDirectory =>
          \A i \in 1 .. Len(DirectoryAhead) :
              FirstUnknownKind(DirectoryAhead, i) =>
                  IF FieldsRead(DirectoryAhead[i])
                  THEN ReadTablesRejected("UNKNOWN_TABLE_TYPE")
                  ELSE ReadTablesRejected("MALFORMED")
      ]_vars

\* the kind byte 0x09 in the second entry of a directory
C18_Witness ==
    /\ entry \in UnitEntries
    /\ pc = "done"
    /\ result.stage = "read_tables"
    /\ result.status = "UNKNOWN_TABLE_TYPE"
    /\ cursor = Len(MOVE_MAGIC) + 8
    /\ binary[cursor - 2] = 9
    /\ binary[cursor - 5] \in KnownKindBytes

-----------------------------------------------------------------------------
(* Claim C19: a table loader and the window of its table *)

\* the bytes of the table: [offset, offset + count) of the contents
Window ==
    SubSeq(binary, tables[1].offset + 1, tables[1].offset + tables[1].count)

\* the table loader on bytes that are a whole table by themselves
LoadsAlone(bytes) ==
    load_table(entry, bytes, Table(entry, 0, Len(bytes)), version, <<>>)

\* bytes that may follow a table that ends too early
MaxExtension == 6
Extensions == {Zeros(k) : k \in 1 .. MaxExtension} \cup {<<1>>, <<97>>}

\* the table does not load, and would with more bytes: it ends in the
\* middle of a record
CutMidRecord ==
    /\ ~LoadsAlone(Window).ok
    /\ \E ext \in Extensions : LoadsAlone(Window \o ext).ok

\* the records of the window from a position on, one after the other
RECURSIVE RecordsFrom(_)
RecordsFrom(pos) ==
    IF pos >= Len(Window) THEN <<>>
    ELSE IF entry = "ADDRESS_IDENTIFIERS"
    THEN <<SubSeq(Window, pos + 1, pos + AccountAddress_LENGTH)>>
            \o RecordsFrom(pos + AccountAddress_LENGTH)
    ELSE IF ~load_item(ItemOf(entry), Window, pos, version).ok THEN <<>>
    ELSE <<load_item(ItemOf(entry), Window, pos, version).val>>
            \o RecordsFrom(load_item(ItemOf(entry), Window, pos, version).pos)

\* where the loader's cursor stands when the window is read
WindowEnd ==
    IF entry = "ADDRESS_IDENTIFIERS"
    THEN tables[1].offset + tables[1].count
    ELSE tables[1].count

FixedWidthStatuses == {"BAD_U16", "BAD_U32", "BAD_U64", "BAD_U128", "BAD_U256"}

\* C19 as stated: a table that ends in the middle of a record is rejected
\* with MALFORMED.
C19_Original ==
    (TableDone /\ CutMidRecord) =>
        (~result.ok /\ result.status = "MALFORMED")

\* C19: the outcome of a table loader depends on the bytes of its window
\* only; on success the cursor stands at the end of the window and the pool
\* holds the records of the window in byte order; a table that ends in the
\* middle of a record is rejected, with MALFORMED, or, when a FUNCTION_DEFS
\* table ends within a fixed-width operand of an instruction, with the
\* BAD_U* status of that operand.
C19_TableWindow ==
    TableDone =>
        /\ result.ok = LoadsAlone(Window).ok
        /\ result.ok => result.val = LoadsAlone(Window).val
        /\ ~result.ok => result.status = LoadsAlone(Window).status
        /\ result.ok => (cursor = WindowEnd /\ result.val = RecordsFrom(0))
        /\ CutMidRecord =>
                /\ ~result.ok
                /\ result.status \in {"MALFORMED"} \cup FixedWidthStatuses
                /\ result.status \in FixedWidthStatuses =>
                        entry = "FUNCTION_DEFS"

\* a module handle table of three bytes, between other bytes
C19_Witness ==
    /\ TableDone
    /\ entry = "MODULE_HANDLES"
    /\ tables[1].offset = 1
    /\ tables[1].count = 3
    /\ Len(binary) = 5
    /\ CutMidRecord
    /\ ~result.ok
    /\ result.status = "MALFORMED"

-----------------------------------------------------------------------------
(* SpecUleb: the bounded ULEB128 readers, each on a stream *)

\* the readers of indices, counts, sizes and offsets
BoundedReaders ==
    {"load_signature_index",
     "load_module_handle_index",
     "load_identifier_index",
     "load_struct_handle_index",
     "load_address_identifier_index",
     "load_struct_def_index",
     "load_function_handle_index",
     "load_field_handle_index",
     "load_field_inst_index",
     "load_function_inst_index",
     "load_struct_def_inst_index",
     "load_constant_pool_index",
     "load_bytecode_count",
     "load_bytecode_index",
     "load_acquires_count",
     "load_field_count",
     "load_type_parameter_count",
     "load_signature_size",
     "load_constant_size",
     "load_metadata_key_size",
     "load_metadata_value_size",
     "load_identifier_size",
     "load_type_parameter_index",
     "load_field_offset",
     "load_table_count",
     "load_table_offset",
     "load_table_size",
     "load_local_index"}

\* the reader of a name, on bytes from a position
bounded_reader(name, bytes, pos) ==
    CASE name = "load_signature_index" ->
            load_signature_index(bytes, pos)
      [] name = "load_module_handle_index" ->
            load_module_handle_index(bytes, pos)
      [] name = "load_identifier_index" ->
            load_identifier_index(bytes, pos)
      [] name = "load_struct_handle_index" ->
            load_struct_handle_index(bytes, pos)
      [] name = "load_address_identifier_index" ->
            load_address_identifier_index(bytes, pos)
      [] name = "load_struct_def_index" ->
            load_struct_def_index(bytes, pos)
      [] name = "load_function_handle_index" ->
            load_function_handle_index(bytes, pos)
      [] name = "load_field_handle_index" ->
            load_field_handle_index(bytes, pos)
      [] name = "load_field_inst_index" ->
            load_field_inst_index(bytes, pos)
      [] name = "load_function_inst_index" ->
            load_function_inst_index(bytes, pos)
      [] name = "load_struct_def_inst_index" ->
            load_struct_def_inst_index(bytes, pos)
      [] name = "load_constant_pool_index" ->
            load_constant_pool_index(bytes, pos)
      [] name = "load_bytecode_count" ->
            load_bytecode_count(bytes, pos)
      [] name = "load_bytecode_index" ->
            load_bytecode_index(bytes, pos)
      [] name = "load_acquires_count" ->
            load_acquires_count(bytes, pos)
      [] name = "load_field_count" ->
            load_field_count(bytes, pos)
      [] name = "load_type_parameter_count" ->
            load_type_parameter_count(bytes, pos)
      [] name = "load_signature_size" ->
            load_signature_size(bytes, pos)
      [] name = "load_constant_size" ->
            load_constant_size(bytes, pos)
      [] name = "load_metadata_key_size" ->
            load_metadata_key_size(bytes, pos)
      [] name = "load_metadata_value_size" ->
            load_metadata_value_size(bytes, pos)
      [] name = "load_identifier_size" ->
            load_identifier_size(bytes, pos)
      [] name = "load_type_parameter_index" ->
            load_type_parameter_index(bytes, pos)
      [] name = "load_field_offset" ->
            load_field_offset(bytes, pos)
      [] name = "load_table_count" ->
            load_table_count(bytes, pos)
      [] name = "load_table_offset" ->
            load_table_offset(bytes, pos)
      [] name = "load_table_size" ->
            load_table_size(bytes, pos)
      [] name = "load_local_index" ->
            load_local_index(bytes, pos)

\* one call of a bounded reader on a cursor over binary
ReadUleb ==
    /\ pc = "uleb"
    /\ entry \in BoundedReaders
    /\ LoaderOutcome(bounded_reader(entry, binary, cursor), entry)

\* the maximum of the field that each reader reads
FieldMaximum ==
    [name \in BoundedReaders |->
        CASE name = "load_signature_index" -> SIGNATURE_INDEX_MAX
          [] name = "load_module_handle_index" -> MODULE_HANDLE_INDEX_MAX
          [] name = "load_identifier_index" -> IDENTIFIER_INDEX_MAX
          [] name = "load_struct_handle_index" -> STRUCT_HANDLE_INDEX_MAX
          [] name = "load_address_identifier_index" -> ADDRESS_INDEX_MAX
          [] name = "load_struct_def_index" -> STRUCT_DEF_INDEX_MAX
          [] name = "load_function_handle_index" -> FUNCTION_HANDLE_INDEX_MAX
          [] name = "load_field_handle_index" -> FIELD_HANDLE_INDEX_MAX
          [] name = "load_field_inst_index" -> FIELD_INST_INDEX_MAX
          [] name = "load_function_inst_index" -> FUNCTION_INST_INDEX_MAX
          [] name = "load_struct_def_inst_index" -> STRUCT_DEF_INST_INDEX_MAX
          [] name = "load_constant_pool_index" -> CONSTANT_INDEX_MAX
          [] name = "load_bytecode_count" -> BYTECODE_COUNT_MAX
          [] name = "load_bytecode_index" -> BYTECODE_INDEX_MAX
          [] name = "load_acquires_count" -> ACQUIRES_COUNT_MAX
          [] name = "load_field_count" -> FIELD_COUNT_MAX
          [] name = "load_type_parameter_count" -> TYPE_PARAMETER_COUNT_MAX
          [] name = "load_signature_size" -> SIGNATURE_SIZE_MAX
          [] name = "load_constant_size" -> CONSTANT_SIZE_MAX
          [] name = "load_metadata_key_size" -> METADATA_KEY_SIZE_MAX
          [] name = "load_metadata_value_size" -> METADATA_VALUE_SIZE_MAX
          [] name = "load_identifier_size" -> IDENTIFIER_SIZE_MAX
          [] name = "load_type_parameter_index" -> TYPE_PARAMETER_INDEX_MAX
          [] name = "load_field_offset" -> FIELD_OFFSET_MAX
          [] name = "load_table_count" -> TABLE_COUNT_MAX
          [] name = "load_table_offset" -> TABLE_OFFSET_MAX
          [] name = "load_table_size" -> TABLE_SIZE_MAX
          [] name = "load_local_index" -> LOCAL_INDEX_MAX]

\* values around a maximum
ValuesAround(max) == {0, 1, 127, 128, max - 1, max, max + 1}

\* streams that are no ULEB128: no byte, no last byte, a last byte of zero,
\* and a tenth byte above 1; and the value 2^32
InvalidUlebs ==
    {<<>>, <<128>>, <<255, 255>>, <<128, 0>>, <<129, 128, 0>>,
     <<255, 255, 255, 255, 255, 255, 255, 255, 255, 2>>}

TwoToThe32 == <<128, 128, 128, 128, 16>>

\* the bytes after the value
UlebRests == {<<>>, <<1>>}

UlebReaderStreams(name) ==
    {u \o rest :
        u \in {EncodeUleb(x) : x \in ValuesAround(FieldMaximum[name])}
                \cup InvalidUlebs \cup {TwoToThe32},
        rest \in UlebRests}

InitUleb ==
    /\ vm_state = "OTHER"
    /\ prev_state = "OTHER"
    /\ storage = {}
    /\ gas = Unmetered
    /\ pc = "uleb"
    /\ entry \in BoundedReaders
    /\ binary \in UlebReaderStreams(entry)
    /\ version = VERSION_MAX
    /\ cursor = 0
    /\ tables = <<>>
    /\ content_len = 0
    /\ table_contents = <<>>
    /\ unit = EmptyUnit
    /\ stack = <<>>
    /\ code = <<>>
    /\ bytecode_count = 0
    /\ result = TopNone

NextUleb == ReadUleb

SpecUleb == InitUleb /\ [][NextUleb]_vars

-----------------------------------------------------------------------------
(* Claim C20: the values of the bounded ULEB128 readers *)

UlebDone == pc = "done" /\ entry \in BoundedReaders

\* the groups of seven bits of the ULEB128 at the head of the stream, when
\* the stream has a byte below 128
HasLastByte == \E i \in 1 .. Len(binary) : binary[i] < 128

WireGroups == SubSeq(binary, 1, UlebLength(binary))

\* a ULEB128 of a u64: at most ten groups, the tenth at most 1, and the
\* last group not zero unless it is the only one
WireValid ==
    /\ HasLastByte
    /\ Len(WireGroups) <= 10
    /\ Len(WireGroups) = 10 => WireGroups[10] <= 1
    /\ Len(WireGroups) > 1 => WireGroups[Len(WireGroups)] # 0

\* the value of groups i .. n, least significant first, up to WireCap
WireCap == ULEB_SAT

RECURSIVE GroupsValue(_, _)
GroupsValue(groups, i) ==
    IF i > Len(groups) THEN 0
    ELSE LET high == GroupsValue(groups, i + 1)
             low == groups[i] % 128
         IN  IF high > (WireCap - low) \div 128 THEN WireCap
             ELSE 128 * high + low

WireValue == GroupsValue(WireGroups, 1)

\* C20: every bounded ULEB128 reader returns only values that are at most
\* the maximum of its field, and then the value on the wire and the cursor
\* after it; a value above the maximum and a stream that is no ULEB128 are
\* rejected with MALFORMED.
C20_BoundedUleb ==
    UlebDone =>
        /\ result.ok =>
                /\ WireValid
                /\ result.val = WireValue
                /\ result.val <= FieldMaximum[entry]
                /\ cursor = Len(WireGroups)
        /\ ~WireValid => (~result.ok /\ result.status = "MALFORMED")
        /\ (WireValid /\ WireValue > FieldMaximum[entry]) =>
                (~result.ok /\ result.status = "MALFORMED")
        /\ (WireValid /\ WireValue <= FieldMaximum[entry] /\ ~result.ok) =>
                /\ entry = "load_type_parameter_index"
                /\ WireValue = TYPE_PARAMETER_INDEX_MAX
                /\ result.status = "UNKNOWN_INVARIANT_VIOLATION_ERROR"

\* a local index one above LOCAL_INDEX_MAX
C20_Witness ==
    /\ UlebDone
    /\ entry = "load_local_index"
    /\ WireValid
    /\ WireValue = LOCAL_INDEX_MAX + 1
    /\ ~result.ok
    /\ result.status = "MALFORMED"
    /\ result.msg = "Uleb greater than max requested"

-----------------------------------------------------------------------------
(* Claim C26: the phantom flag of a struct type parameter *)

\* load_struct_type_parameter has read the constraints
ConstraintsRead ==
    /\ ItemDone
    /\ entry = "StructTypeParameter"
    /\ load_ability_set(binary, 0, version, "StructTypeParameters").ok

ParameterRead(is_phantom, position) ==
    /\ result.ok
    /\ result.val.is_phantom = is_phantom
    /\ result.val.constraints
          = load_ability_set(binary, 0, version, "StructTypeParameters").val
    /\ cursor = position

\* C26: from version 3 load_struct_type_parameter reads, after the
\* constraints, one ULEB128 bounded by 1: 1 makes is_phantom true and 0
\* false, and every other value, like a missing one, is MALFORMED; below
\* version 3 no byte is read after the constraints and is_phantom is false.
C26_PhantomFlag ==
    ConstraintsRead =>
        IF version < VERSION_3 THEN ParameterRead(FALSE, 1)
        ELSE IF Len(binary) >= 2 /\ binary[2] = 0 THEN ParameterRead(FALSE, 2)
        ELSE IF Len(binary) >= 2 /\ binary[2] = 1 THEN ParameterRead(TRUE, 2)
        ELSE ~result.ok /\ result.status = "MALFORMED"

\* a phantom parameter of version 3
C26_Witness ==
    /\ ConstraintsRead
    /\ version = VERSION_3
    /\ Len(binary) >= 2
    /\ binary[2] = 1
    /\ result.ok
    /\ result.val.is_phantom
    /\ cursor = 2

-----------------------------------------------------------------------------
(* Claim C27: load_code decodes as many instructions as the count *)

LoadCodeDone == entry \in CodeEntries /\ pc = "done"

\* the bytes of the operand of the instruction at a position of the wire
OperandLength(pos) ==
    LET op == Opcodes_from_u8(binary[pos + 1]).val
        rest == SubSeq(binary, pos + 2, Len(binary))
    IN  CASE op = "LD_U8" -> 1
          [] op \in FixedOpcodes -> FixedOperands[op]
          [] op \in IndexOpcodes -> UlebLength(rest)
          [] op \in IndexAndU64Opcodes -> UlebLength(rest) + 8
          [] OTHER -> 0

\* the position after n instructions from a position
RECURSIVE InstructionsEnd(_, _)
InstructionsEnd(pos, n) ==
    IF n = 0 THEN pos
    ELSE InstructionsEnd(pos + 1 + OperandLength(pos), n - 1)

\* C27: load_code reads a ULEB128 count bounded by BYTECODE_COUNT_MAX and
\* decodes as many instructions: on success the code has the length of the
\* count and the cursor stands just after the last of these instructions,
\* whatever follows; a count above the maximum is MALFORMED; and when
\* load_code fails after the count it has decoded fewer instructions than
\* the count.
C27_ExactCount ==
    LoadCodeDone =>
        /\ result.ok =>
                /\ WireValid
                /\ WireValue <= BYTECODE_COUNT_MAX
                /\ Len(code) = WireValue
                /\ cursor = InstructionsEnd(Len(WireGroups), WireValue)
        /\ (WireValid /\ WireValue > BYTECODE_COUNT_MAX) =>
                (~result.ok /\ result.status = "MALFORMED" /\ code = <<>>)
        /\ (~result.ok /\ WireValid /\ WireValue <= BYTECODE_COUNT_MAX) =>
                Len(code) < WireValue

\* two instructions and a byte after them
C27_Witness ==
    /\ LoadCodeDone
    /\ result.ok
    /\ WireValue = 2
    /\ Len(code) = 2
    /\ cursor = 3
    /\ Len(binary) = 4

-----------------------------------------------------------------------------
(* Claim C29: the builder stack at the top of load_signature_token's loop *)

AtLoopTop == entry \in SigEntries /\ pc = "sig_loop"

\* a builder that apply accepts: a constructor still short of arguments
Unsaturated(t) ==
    \/ t.kind \in {"Vector", "Reference", "MutableReference"}
    \/ t.kind = "StructInst" /\ Len(t.ty_args) < t.arity

\* C29: at the top of the loop of load_signature_token the builder stack is
\* not empty, every builder under the top is an unsaturated one, the top is
\* an unsaturated one or a Saturated one, and the stack is no longer than
\* SIGNATURE_TOKEN_DEPTH_MAX + 1; and no run of load_signature_token ends in
\* one of the unreachable!() arms.
C29_BuilderStack ==
    /\ AtLoopTop =>
        /\ stack # <<>>
        /\ Len(stack) <= SIGNATURE_TOKEN_DEPTH_MAX + 1
        /\ \A i \in 1 .. Len(stack) - 1 : Unsaturated(stack[i])
        /\ is_saturated(stack[Len(stack)]) \/ Unsaturated(stack[Len(stack)])
    /\ (entry \in SigEntries /\ pc = "done") => result.status # "PANIC"

\* a stack of the greatest length that the depth check lets pass, a
\* Saturated builder on top of a struct instantiation that apply left one
\* type argument short
C29_Witness ==
    /\ AtLoopTop
    /\ Len(stack) = SIGNATURE_TOKEN_DEPTH_MAX
    /\ is_saturated(stack[Len(stack)])
    /\ stack[Len(stack) - 1].kind = "StructInst"
    /\ Len(stack[Len(stack) - 1].ty_args) = 1
    /\ stack[Len(stack) - 1].arity = 2

-----------------------------------------------------------------------------
(* Claim C23: the trailer is read after the table contents and before the
   tables are decoded *)

\* the bytes of the directory entries of the tables that were read
RECURSIVE DirectoryLength(_)
DirectoryLength(i) ==
    IF i > Len(tables) THEN 0
    ELSE 1 + Len(EncodeUleb(tables[i].offset)) + Len(EncodeUleb(tables[i].count))
           + DirectoryLength(i + 1)

\* the magic, the version, the table count and the directory
HeaderLength ==
    Len(MOVE_MAGIC) + Len(EncodeUleb(version)) + Len(EncodeUleb(Len(tables)))
        + DirectoryLength(1)

\* the position after the table contents
TrailerStart == HeaderLength + content_len

TrailerStages == {"load_module_handle_index", "script"}

\* the decoder has read, or tried to read, the trailer
TrailerRead ==
    /\ entry \in UnitEntries
    /\ \/ pc \in {"unit", "common_tables"}
       \/ pc = "done" /\ result.stage \in TrailerStages \cup BuildStages

\* the trailer that stands after the table contents
Trailer ==
    IF entry = "module" THEN new_module(binary, TrailerStart)
    ELSE new_script(binary, TrailerStart, version)

\* some table of the directory does not load
TablesMalformed ==
    ~build_common_tables(table_contents, tables, 1, version, EmptyUnit).ok

\* C23: the trailer is read at the position just after the table contents,
\* which no table reaches into, and before any table is decoded: the unit
\* built from it has empty pools, and when the trailer is malformed its
\* error is the one returned, malformed tables or not.
C23_TrailerFirst ==
    TrailerRead =>
        /\ table_contents = SubSeq(binary, HeaderLength + 1, TrailerStart)
        /\ \A i \in 1 .. Len(tables) :
                tables[i].offset + tables[i].count <= content_len
        /\ IF Trailer.ok
           THEN /\ unit.self_module_handle_idx = Trailer.val.self_module_handle_idx
                /\ unit.type_parameters = Trailer.val.type_parameters
                /\ unit.parameters = Trailer.val.parameters
                /\ unit.code = Trailer.val.code
                /\ pc = "unit" => (unit = Trailer.val /\ cursor = Trailer.pos)
           ELSE /\ pc = "done"
                /\ result.stage \in TrailerStages
                /\ result.status = Trailer.status
                /\ result.msg = Trailer.msg
                /\ unit = EmptyUnit

\* a malformed trailer after a table that does not load
C23_Witness ==
    /\ TrailerRead
    /\ pc = "done"
    /\ entry = "module"
    /\ ~Trailer.ok
    /\ result.stage = "load_module_handle_index"
    /\ tables # <<>>
    /\ TablesMalformed

-----------------------------------------------------------------------------
(* Claim C28: the bytes after the trailer *)

\* build_compiled_module
build_compiled_module(module, contents, tables_, ver) ==
    Try(build_common_tables(contents, tables_, 1, ver, module),
        LAMBDA m, p : build_module_tables(contents, tables_, 1, ver, m))

\* deserialize_compiled_module, from the binary to the module or the error
deserialize_compiled_module(bytes, max_binary_format_version) ==
    Try(VersionedCursor_new(bytes, max_binary_format_version),
        LAMBDA ver, p0 :
    Try(load_table_count(bytes, p0),
        LAMBDA table_count, p1 :
    Try(read_tables(bytes, p1, table_count, <<>>),
        LAMBDA ts, p2 :
    Try(check_tables(sort_by_offset(ts), Len(bytes)),
        LAMBDA len, p3 :
    Try(read_table_contents(bytes, p2, len),
        LAMBDA contents, p4 :
    Try(new_module(bytes, p4),
        LAMBDA module, p5 :
            build_compiled_module(module, contents, sort_by_offset(ts), ver)))))))

\* CompiledModule::deserialize_no_check_bounds
deserialize_no_check_bounds(bytes) == deserialize_compiled_module(bytes, VERSION_MAX)

\* bytes to put after a binary
TrailingBytes == {<<0>>, <<1>>, <<255>>, <<0, 0>>, <<128, 1>>, <<1, 7, 1, 7>>}

ModuleDecoded == UnitDone /\ entry = "module" /\ result.ok

\* C28: when deserialize_no_check_bounds returns Ok(u) for a binary, it
\* returns the same Ok(u) for the binary followed by any bytes.
C28_TrailingBytes ==
    ModuleDecoded =>
        /\ deserialize_no_check_bounds(binary).ok
        /\ deserialize_no_check_bounds(binary).val = result.val
        /\ \A x \in TrailingBytes :
                /\ deserialize_no_check_bounds(binary \o x).ok
                /\ deserialize_no_check_bounds(binary \o x).val = result.val

\* a module with two tables that decodes
C28_Witness ==
    /\ ModuleDecoded
    /\ Len(tables) = 2
    /\ result.val.signatures # <<>>
    /\ deserialize_no_check_bounds(binary \o <<255>>).ok

-----------------------------------------------------------------------------
(* CompiledModule::deserialize_with_max_version, std build *)

\* enum VMState
VMStates == {"DESERIALIZER", "VERIFIER", "RUNTIME", "OTHER"}

\* what BoundsChecker::verify_module may do with a module: accept it,
\* reject it, or fail on a host-level invariant
BoundsOutcomes == {"OK", "INDEX_OUT_OF_BOUNDS", "PANIC"}

\* the closure: deserialize_compiled_module(..)?; verify_module(&module)?;
\* Ok(module)
decode_and_verify(bytes, max_binary_format_version, bounds) ==
    Try(deserialize_compiled_module(bytes, max_binary_format_version),
        LAMBDA module, p :
            IF bounds = "OK" THEN Ok(module, p) ELSE Err(bounds, "", p))

\* std::panic::catch_unwind(..).unwrap_or_else(|_| Err(
\*     PartialVMError::new(StatusCode::VERIFIER_INVARIANT_VIOLATION)))
catch_unwind(r) ==
    IF ~r.ok /\ r.status = "PANIC"
    THEN Err("VERIFIER_INVARIANT_VIOLATION", "", r.pos)
    ELSE r

StateEntries == {"deserialize_with_max_version"}

\* let prev_state = move_core_types::state::set_state(VMState::DESERIALIZER)
SetState ==
    /\ pc = "start"
    /\ entry \in StateEntries
    /\ prev_state' = vm_state
    /\ vm_state' = "DESERIALIZER"
    /\ pc' = "set_state"
    /\ UNCHANGED <<binary, entry, cursor, version, tables, content_len,
                   table_contents, unit, stack, code, bytecode_count, result,
                   storage, gas>>

\* let result = std::panic::catch_unwind(|| { .. }).unwrap_or_else(..)
CatchUnwind ==
    /\ pc = "set_state"
    /\ entry \in StateEntries
    /\ \E max_version \in {VERSION_4, VERSION_MAX}, bounds \in BoundsOutcomes :
       \E r \in {catch_unwind(decode_and_verify(binary, max_version, bounds))} :
            result' = IF r.ok THEN TopOk(r.val, "catch_unwind")
                      ELSE TopErr(r, "catch_unwind")
    /\ pc' = "catch_unwind"
    /\ UNCHANGED <<binary, entry, cursor, version, tables, content_len,
                   table_contents, unit, stack, code, bytecode_count,
                   vm_state, prev_state, storage, gas>>

\* A variant of RestoreState as if the ? of the closure returned from the
\* function: the state is put back on success only.
RestoreState_on_success ==
    /\ pc = "catch_unwind"
    /\ entry \in StateEntries
    /\ vm_state' = IF result.ok THEN prev_state ELSE vm_state
    /\ pc' = "done"
    /\ UNCHANGED <<binary, entry, cursor, version, tables, content_len,
                   table_contents, unit, stack, code, bytecode_count, result,
                   prev_state, storage, gas>>

\* move_core_types::state::set_state(prev_state); result
RestoreState ==
    /\ pc = "catch_unwind"
    /\ entry \in StateEntries
    /\ vm_state' = prev_state
    /\ pc' = "done"
    /\ UNCHANGED <<binary, entry, cursor, version, tables, content_len,
                   table_contents, unit, stack, code, bytecode_count, result,
                   prev_state, storage, gas>>

-----------------------------------------------------------------------------
(* SpecState: deserialize_with_max_version on modules of at most one table *)

StateImages == {s \in UnitImages : Len(s) <= 1}

StateBinaries ==
    {EncodeBinary(v, Directory(s), Contents(s) \o t) :
        v \in UnitVersions, s \in StateImages, t \in {<<0>>, <<128>>}}
    \cup {<<>>}

InitState ==
    /\ entry \in StateEntries
    /\ pc = "start"
    /\ binary \in StateBinaries
    /\ vm_state \in VMStates
    /\ prev_state = "OTHER"
    /\ storage = {}
    /\ gas = Unmetered
    /\ cursor = 0
    /\ version = 0
    /\ tables = <<>>
    /\ content_len = 0
    /\ table_contents = <<>>
    /\ unit = EmptyUnit
    /\ stack = <<>>
    /\ code = <<>>
    /\ bytecode_count = 0
    /\ result = TopNone

NextState == SetState \/ CatchUnwind \/ RestoreState

SpecState == InitState /\ [][NextState]_vars

-----------------------------------------------------------------------------
(* Claim C30: the VM state around the decode *)

InDecode == entry \in StateEntries /\ pc \in {"set_state", "catch_unwind"}

StateDone == entry \in StateEntries /\ pc = "done"

\* C30: deserialize_with_max_version keeps the VM state at DESERIALIZER from
\* set_state to the end of the decode and bounds check, and every step that
\* returns (with a module, a typed error or VERIFIER_INVARIANT_VIOLATION for
\* a caught panic) puts back the state the call started in.
C30_StateRestored ==
    /\ [](InDecode => vm_state = "DESERIALIZER")
    /\ [](StateDone => (vm_state = prev_state /\ result.status # "PANIC"))
    /\ [][(entry \in StateEntries /\ pc = "start") => prev_state' = vm_state]_vars
    /\ [][(entry \in StateEntries /\ pc # "start") => prev_state' = prev_state]_vars
    /\ [][(entry \in StateEntries /\ pc = "catch_unwind")
            => (pc' = "done" /\ result' = result)]_vars

\* a caught panic, and the state put back to RUNTIME
C30_Witness ==
    /\ StateDone
    /\ result.status = "VERIFIER_INVARIANT_VIOLATION"
    /\ vm_state = "RUNTIME"
    /\ prev_state = "RUNTIME"

-----------------------------------------------------------------------------
(* Claim C21: no host-level fault in the decoder *)

\* a panic, and what catch_unwind makes of it
HostFaults == {"PANIC", "VERIFIER_INVARIANT_VIOLATION"}

\* the directory that was read has a table that starts after a gap or ends
\* beyond u32
FaultyDirectory ==
    \E i \in 1 .. Len(tables) :
        \/ tables[i].count > U32_MAX - tables[i].offset
        \/ i > 1 /\ tables[i].offset > tables[i - 1].offset + tables[i - 1].count

\* C21: the decoder of a module or a script ends in no panic: its result is
\* the unit or a typed error, never VERIFIER_INVARIANT_VIOLATION, also when
\* it ran under catch_unwind; and the builder stack of a signature token
\* is never popped empty nor applied on a saturated builder.
C21_NoHostFault ==
    /\ UnitDone =>
        /\ result.status \notin HostFaults
        /\ result.ok \/ result.status \notin {"NONE", "OK"}
        /\ entry = "module" =>
                catch_unwind(deserialize_compiled_module(binary, VERSION_MAX)).status
                    = result.status
        /\ FaultyDirectory => result.status = "BAD_HEADER_TABLE"

\* a directory with a gap, and one with a table that ends beyond u32
C21_Witness ==
    /\ UnitDone
    /\ FaultyDirectory
    /\ Len(tables) = 2
    /\ tables[2].count = 2
    /\ result.status = "BAD_HEADER_TABLE"

-----------------------------------------------------------------------------
(* The loop of a table's loader, one record at a time *)

\* the tables that are read record by record from a cursor
RecordKinds == (CommonTableKinds \cup ModuleTableKinds) \ {"ADDRESS_IDENTIFIERS"}

\* while cursor.position() < table.count { pool.push(load_*(&mut cursor)?) }
\* on a table that is the whole of binary
LoadRecord ==
    /\ pc = "records"
    /\ entry \in RecordKinds
    /\ IF table_is_read(ItemOf(entry), cursor, Len(binary))
       THEN /\ pc' = "done"
            /\ result' = TopOk(unit[PoolOf(entry)], "load_table")
            /\ UNCHANGED <<cursor, unit>>
       ELSE \E r \in {load_item(ItemOf(entry), binary, cursor, version)} :
                /\ cursor' = r.pos
                /\ IF r.ok
                   THEN /\ pc' = "records"
                        /\ unit' = [unit EXCEPT
                                        ![PoolOf(entry)] = Append(@, r.val)]
                        /\ UNCHANGED result
                   ELSE /\ pc' = "done"
                        /\ result' = TopErr(r, "load_item")
                        /\ UNCHANGED unit
    /\ UNCHANGED <<binary, entry, version, tables, content_len,
                   table_contents, stack, code, bytecode_count,
                   vm_state, prev_state, storage, gas>>

-----------------------------------------------------------------------------
(* SpecTerm: the decoders and their loops, every step taken in its turn *)

MaxTermLen == 3

\* indices, counts and flags; POP, RET, BR_TRUE and a ULEB128 continuation
TermBytes == {0, 1, 128}

TermCodeBytes == {1, 2, 3, 128}

TermVersions == {VERSION_1, VERSION_MAX}

\* BOOL, VECTOR, STRUCT_INST and a ULEB128 continuation
TermSigBytes == {1, 10, 11, 128}

\* n VECTOR tags and a BOOL
VectorChain(n) == [i \in 1 .. n |-> 10] \o <<1>>

TermSigStreams ==
    SeqsUpTo(TermSigBytes, MaxTermLen)
        \cup {EncodeToken(t) : t \in SpineTokens(2)}
        \cup {VectorChain(n) : n \in 0 .. SIGNATURE_TOKEN_DEPTH_MAX + 1}
        \cup {<<11, 3, 2, 1, 1>>, <<10, 11, 3, 2, 1, 1>>}

TermCodeStreams ==
    {<<n>> \o s : n \in 0 .. 2, s \in SeqsUpTo(TermCodeBytes, MaxTermLen)}

InitTerm ==
    /\ cursor = 0
    /\ Idle
    /\ \/ /\ entry \in SigEntries
          /\ pc = "start"
          /\ binary \in TermSigStreams
          /\ version \in TermVersions
       \/ /\ entry \in CodeEntries
          /\ pc = "start"
          /\ binary \in TermCodeStreams
          /\ version \in TermVersions
       \/ /\ entry \in RecordKinds
          /\ pc = "records"
          /\ binary \in SeqsUpTo(TermBytes, MaxTermLen)
          /\ version \in TermVersions
       \/ /\ entry \in UnitEntries
          /\ pc = "start"
          /\ version = 0
          /\ \E v \in UnitVersions, s \in StateImages, t \in UnitTrailers(entry) :
                binary = EncodeBinary(v, Directory(s), Contents(s) \o t)

NextTerm == NextUnit \/ NextSig \/ NextCode \/ LoadRecord

\* a decoder is one sequential function: a step that can be taken is taken
SpecTerm == InitTerm /\ [][NextTerm]_vars /\ WF_vars(NextTerm)

-----------------------------------------------------------------------------
(* Claim C22: the decoders terminate *)

\* what an iteration that stays in its loop does: the signature builder
\* reads a builder or shrinks its stack, the bytecode loop reads one more
\* instruction of the count, a table loop reads a record
LoopProgress ==
    /\ (pc = "sig_loop" /\ pc' = "sig_loop") =>
            \/ cursor' > cursor /\ Len(stack') = Len(stack) + 1
            \/ cursor' = cursor /\ Len(stack') < Len(stack)
    /\ (pc = "code_loop" /\ pc' = "code_loop") =>
            /\ cursor' > cursor
            /\ Len(code') = Len(code) + 1
            /\ Len(code') <= bytecode_count
    /\ (pc = "records" /\ pc' = "records") => cursor' > cursor
    /\ pc' \in {"sig_loop", "code_loop", "records"} => cursor' <= Len(binary)

\* C22: every decoder comes to its end, with Ok or a typed error, and each
\* iteration of the signature builder loop, of the bytecode loop and of a
\* table's record loop consumes input, shrinks the builder stack or adds to
\* a list bounded by a decoded count.
C22_Terminates ==
    /\ <>(pc = "done")
    /\ [](pc = "done" => (result.ok \/ result.status \notin {"NONE", "OK", "PANIC"}))
    /\ [][LoopProgress]_vars

\* a struct instantiation of two type arguments, decoded to its end
C22_Witness ==
    /\ pc = "done"
    /\ entry \in SigEntries
    /\ result.ok
    /\ result.val.tag = "StructInstantiation"
    /\ Len(result.val.args) = 2
    /\ cursor = Len(binary)

-----------------------------------------------------------------------------
(* Mvm: publishing a module under a gas strategy (tests/move_vm.rs).
   The tests call Mvm::publish_module and Mvm::get_module; the gas meter and
   the storage behind them are described here as the tests expect them. *)

MaxGas == 8

\* the divisor of estimate_gas_for_published_bytecode: internal gas units
\* per unit of gas
GasUnitScale == 1000

\* move_vm_backend_common::gas_schedule::GAS_COST_PER_PUBLISHED_BYTE, in
\* internal gas units
GAS_COST_PER_PUBLISHED_BYTE == 150

\* GasAmount::max()
GasAmount_max == MaxGas

\* num_integer::div_ceil
div_ceil(a, b) == IF a % b > 0 THEN a \div b + 1 ELSE a \div b

\* A variant of estimate_gas_for_published_bytecode that rounds down.
estimate_gas_rounded_down(bytecode) ==
    (Len(bytecode) * GAS_COST_PER_PUBLISHED_BYTE) \div GasUnitScale

\* let raw_gas_cost = bytecode.len() as u64 * GAS_COST_PER_PUBLISHED_BYTE;
\* num_integer::div_ceil(raw_gas_cost, 1000)
estimate_gas_for_published_bytecode(bytecode) ==
    div_ceil(Len(bytecode) * GAS_COST_PER_PUBLISHED_BYTE, GasUnitScale)

\* AccountAddress::from_hex_literal("0xCAFE"), and another account
PublishAddress == "0xCAFE"
OtherAddress == "0x1"

\* what get_module returns
None == [some |-> FALSE, bytes |-> <<>>]
Some(bytes) == [some |-> TRUE, bytes |-> bytes]

\* the result of a publish: its outcome and the gas it used, and the module
\* a following get_module returned
MvmResult(ok, status, gas_used) ==
    [ok |-> ok, val |-> <<>>, pos |-> 0, status |-> status, msg |-> "",
     stage |-> "publish_module", gas_used |-> gas_used, module |-> None]

\* the internal gas units the meter starts with
GasBalance(gas_) ==
    IF gas_.strategy = "Metered" THEN gas_.amount * GasUnitScale
    ELSE GasAmount_max * GasUnitScale

\* the gas used, in units: what was provided less the whole units left
GasUsed(gas_, left) ==
    IF gas_.strategy = "Unmetered" THEN 0
    ELSE GasBalance(gas_) \div GasUnitScale - left \div GasUnitScale

\* A variant of publish_module that stores the module under every strategy.
Mvm_publish_module_always_stored(bytes, address, gas_, store, decoded) ==
    LET cost == Len(bytes) * GAS_COST_PER_PUBLISHED_BYTE
        left == GasBalance(gas_) - cost
    IN  IF gas_.strategy # "Unmetered" /\ left < 0
        THEN [res |-> MvmResult(FALSE, "OUT_OF_GAS", GasUsed(gas_, 0)),
              storage |-> store]
        ELSE IF ~decoded.ok
        THEN [res |-> MvmResult(FALSE, decoded.status, GasUsed(gas_, left)),
              storage |-> store]
        ELSE [res |-> MvmResult(TRUE, "EXECUTED", GasUsed(gas_, left)),
              storage |-> store \cup {[address |-> address, module |-> bytes]}]

\* vm.publish_module(&module, address, gas): the bytes are charged for, then
\* decoded and verified; the module is stored unless the strategy is DryRun
Mvm_publish_module(bytes, address, gas_, store, decoded) ==
    LET cost == Len(bytes) * GAS_COST_PER_PUBLISHED_BYTE
        left == GasBalance(gas_) - cost
    IN  IF gas_.strategy # "Unmetered" /\ left < 0
        THEN [res |-> MvmResult(FALSE, "OUT_OF_GAS", GasUsed(gas_, 0)),
              storage |-> store]
        ELSE IF ~decoded.ok
        THEN [res |-> MvmResult(FALSE, decoded.status, GasUsed(gas_, left)),
              storage |-> store]
        ELSE [res |-> MvmResult(TRUE, "EXECUTED", GasUsed(gas_, left)),
              storage |-> IF gas_.strategy = "DryRun" THEN store
                          ELSE store \cup {[address |-> address,
                                            module |-> bytes]}]

\* vm.get_module(address, name): the module stored at the address; the
\* bytes of a module stand for its name
Mvm_get_module(store, address, bytes) ==
    IF [address |-> address, module |-> bytes] \in store
    THEN Some(bytes) ELSE None

MvmEntries == {"publish_module"}

\* let result = vm.publish_module(&module, address, gas);
PublishModule ==
    /\ pc = "start"
    /\ entry \in MvmEntries
    /\ \E bounds \in BoundsOutcomes :
       \E decoded \in {catch_unwind(decode_and_verify(binary, VERSION_MAX,
                                                      bounds))} :
       \E r \in {Mvm_publish_module(binary, PublishAddress, gas, storage,
                                    decoded)} :
            /\ result' = r.res
            /\ storage' = r.storage
    /\ pc' = "published"
    /\ UNCHANGED <<binary, entry, cursor, version, tables, content_len,
                   table_contents, unit, stack, code, bytecode_count,
                   vm_state, prev_state, gas>>

\* let result = vm.get_module(address, "Vector");
GetModule ==
    /\ pc = "published"
    /\ entry \in MvmEntries
    /\ result' = [result EXCEPT
                      !.module = Mvm_get_module(storage, PublishAddress, binary)]
    /\ pc' = "done"
    /\ UNCHANGED <<binary, entry, cursor, version, tables, content_len,
                   table_contents, unit, stack, code, bytecode_count,
                   vm_state, prev_state, storage, gas>>

GasStrategies ==
    {DryRun, Unmetered} \cup {Metered(g) : g \in 1 .. MaxGas}

\* StorageMock::new(), and a store that holds a module of another account
Stores == {{}, {[address |-> OtherAddress, module |-> <<>>]}}

InitMvm ==
    /\ entry \in MvmEntries
    /\ pc = "start"
    /\ binary \in StateBinaries
    /\ gas \in GasStrategies
    /\ storage \in Stores
    /\ vm_state = "OTHER"
    /\ prev_state = "OTHER"
    /\ cursor = 0
    /\ version = 0
    /\ tables = <<>>
    /\ content_len = 0
    /\ table_contents = <<>>
    /\ unit = EmptyUnit
    /\ stack = <<>>
    /\ code = <<>>
    /\ bytecode_count = 0
    /\ result = TopNone

NextMvm == PublishModule \/ GetModule

SpecMvm == InitMvm /\ [][NextMvm]_vars

-----------------------------------------------------------------------------
(* Claims C24, C25: publishing under DryRun and under Metered *)

Published == entry \in MvmEntries /\ pc \in {"published", "done"}

\* the module was turned down by the decoder or the verifier
ModuleRejected == ~result.ok /\ result.status # "OUT_OF_GAS"

GasEstimate == estimate_gas_for_published_bytecode(binary)

\* the publish step of a dry run
DryRunPublish == gas = DryRun /\ pc = "start" /\ pc' = "published"

=============================================================================
